---- MODULE Spec2Model ----
(***************************************************************************)
(* Model of the client-side state synchronisation core of the supply      *)
(* administration tool:                                                    *)
(*   - the reducer of context/data-context.tsx and the wrappers the       *)
(*     DataProvider exposes (specification Spec),                          *)
(*   - loadDataState / saveDataState / clearDataState of                   *)
(*     services/data-repository.ts (specification RepoSpec),               *)
(*   - the DataProvider effects, refresh and the cross-tab sync channel    *)
(*     of services/sync-channel.ts (specifications SyncSpec,               *)
(*     FairSyncSpec and ChanSpec),                                         *)
(*   - reset() of the DataProvider next to the persist effect and          *)
(*     refresh, in one tab (specification ResetSpec),                      *)
(*   - calculateTotalQuantity (specification CalcSpec).                    *)
(* Strings of the user interface are written in English; ids are numbers; *)
(* formatISO(new Date()) is the value of a clock with one-second ticks.    *)
(***************************************************************************)
EXTENDS Integers, Sequences, FiniteSets, TLC

\* ------------------------------------------------------------------------
\* Bounds of the model
\* ------------------------------------------------------------------------
\* number of dispatches to the reducer in one behaviour
MaxSteps == 2
\* number of ticks of the clock in one behaviour
MaxTime == 1

\* number of repository operations in one behaviour
MaxRepoOps == 3
\* browser tabs of the origin
MaxTabs == 3
\* user mutations in one behaviour, over all tabs
MaxMutations == 2
\* repository loads one tab has in flight
MaxLoads == 2
\* saveDataState calls of one tab that have not settled
MaxSaves == 2
\* state-updated messages waiting for one tab from one sender
MaxInbox == 2
\* failed requests and failed storage writes in one behaviour
MaxFaults == 1
\* calls of refresh() in one behaviour
MaxRefreshes == 1
\* calls of reset() in one behaviour
MaxResets == 1
\* browsing contexts (documents) of the origin
MaxContexts == 2
\* channels created by createSyncChannel, over all contexts
MaxChannels == 3
\* notify calls and foreign events in one behaviour
MaxChanSteps == 3
\* lines of a request whose total quantity is calculated
MaxLines == 2
\* the quantity of one line
MaxQuantity == 2

VARIABLES
  \* --- the Store (useReducer in the DataProvider) ---
  state,      \* the AppDataState held by useReducer
  now,        \* the clock: what formatISO(new Date()) returns
  nextId,     \* the next id nanoid() returns (generated ids are fresh)
  steps,      \* dispatches so far
  last,       \* the last dispatched action and the state it was applied to
  \* --- the repository (services/data-repository.ts) ---
  hasRemote,    \* import.meta.env.VITE_API_BASE_URL is set
  remote,       \* the blob the HTTP backend stores: <<>> or <<state>>
  local,        \* localStorage[STORAGE_KEY]: <<>> or <<raw>>
  customSet,    \* customRepository !== null
  customStore,  \* the state the custom repository holds: <<>> or <<state>>
  repoOps,      \* repository operations so far
  lastOp,       \* the last repository operation and how it settled
  prevOp,       \* the repository operation before it
  \* --- one DataProvider per open tab, and the sync channel ---
  open,           \* the tabs whose DataProvider is mounted
  store,          \* per tab: the state of useReducer (the mutations it holds)
  isHydrated,     \* per tab
  isSyncing,      \* per tab
  syncSource,     \* per tab
  syncError,      \* per tab: syncInfo.error !== null
  skipPersist,    \* per tab: skipPersistRef.current
  skipBroadcast,  \* per tab: skipBroadcastRef.current
  loads,          \* per tab: the loadDataState calls in flight
  saves,          \* per tab: the saveDataState calls in flight
  inbox,          \* per tab and sender: state-updated messages not yet delivered
  mutCount,       \* user mutations so far
  faults,         \* failed requests and storage writes so far
  refreshes,      \* refresh() calls so far
  handed,         \* the mutations contained in a state passed to saveDataState
  savedLocal,     \* the mutations whose save, started by a user action, resolved
  announced,      \* the mutations contained in a saved state a message was sent for
  notifyCauses,   \* what started the saves a message was sent for
  pulled,         \* per tab: the saved mutations a message-triggered reload followed
  resets,         \* reset() calls so far
  resetCall,      \* per tab: how far the last reset() call has got
  refreshCall,    \* per tab: the promise of the last refresh() call
  \* --- createSyncChannel (services/sync-channel.ts) ---
  chanMode,     \* "broadcast" when window.BroadcastChannel exists, else "storage"
  chanOwner,    \* per channel: the context that created it (its instanceId)
  chanCalls,    \* per channel: the originIds of the messages passed to onMessage
  chanLast,     \* the events the last step dispatched and what the listeners did
  chanSteps,    \* notify calls and foreign events so far
  \* --- calculateTotalQuantity(lineItems, items, unit) ---
  calcLineItems,  \* the lines of a request
  calcItems,      \* the item list
  calcUnit,       \* the unit asked for
  calcTotal       \* <<>> before the call, <<total>> after it

storeVars == <<state, now, nextId, steps, last>>

repoVars == <<hasRemote, remote, local, customSet, customStore, repoOps, lastOp, prevOp>>

resetVars == <<resets, resetCall>>

syncVars ==
  <<open, store, isHydrated, isSyncing, syncSource, syncError, skipPersist, skipBroadcast,
    loads, saves, inbox, mutCount, faults, refreshes,
    handed, savedLocal, announced, notifyCauses, pulled, resetVars, refreshCall>>

chanVars == <<chanMode, chanOwner, chanCalls, chanLast, chanSteps>>

calcVars == <<calcLineItems, calcItems, calcUnit, calcTotal>>

vars == <<storeVars, repoVars, syncVars, chanVars, calcVars>>

\* ------------------------------------------------------------------------
\* Helpers on lists
\* ------------------------------------------------------------------------
Ids(list) == {list[i].id : i \in 1..Len(list)}

\* Array.prototype.find by id; only used when the id is present
FindById(list, id) == list[CHOOSE i \in 1..Len(list) : list[i].id = id /\ \A j \in 1..(i-1) : list[j].id # id]

\* list.map((x) => (x.id === id ? replacement : x))
ReplaceById(list, id, replacement) ==
  [i \in 1..Len(list) |-> IF list[i].id = id THEN replacement ELSE list[i]]

\* list.filter((x) => x.id !== id)
RemoveById(list, id) == SelectSeq(list, LAMBDA x : x.id # id)

IsSuffix(old, new) ==
  /\ Len(new) >= Len(old)
  /\ SubSeq(new, Len(new) - Len(old) + 1, Len(new)) = old

\* ------------------------------------------------------------------------
\* Records
\* ------------------------------------------------------------------------
\* the meta bag of an audit entry: keys names the keys that are present.
\* A target is a pair: a name and the "and N more" count of the label.
NoMeta ==
  [keys |-> {}, sku |-> "", stock |-> 0, delta |-> 0, status |-> "",
   items |-> <<>>, role |-> "", process |-> "", removedLogId |-> 0]

AuditEntry(id, actorId, action, target, timestamp, category, meta) ==
  [id |-> id, actorId |-> actorId, action |-> action, target |-> target,
   timestamp |-> timestamp, category |-> category, meta |-> meta]

ActivityEntry(id, type, description, timestamp) ==
  [id |-> id, type |-> type, description |-> description, timestamp |-> timestamp]

\* createInitialDataState(): the seeded default state, built at time t
createInitialDataState(t) ==
  [users |-> << [id |-> 1, name |-> "Administrator", role |-> "admin", process |-> ""],
                [id |-> 2, name |-> "John Doe", role |-> "user", process |-> ""] >>,
   items |-> << [id |-> 3, name |-> "A4 paper", unit |-> "box", sku |-> "ST-001",
                 threshold |-> 5, stock |-> 12],
                [id |-> 4, name |-> "Pen", unit |-> "each", sku |-> "ST-002",
                 threshold |-> 20, stock |-> 50] >>,
   issueRequests |-> << [id |-> 5, createdAt |-> t - 5, updatedAt |-> t - 3,
                         requestedBy |-> 2, status |-> "approved",
                         lineItems |-> << [itemId |-> 3, quantity |-> 1, unit |-> "box"],
                                          [itemId |-> 4, quantity |-> 10, unit |-> "each"] >>] >>,
   purchaseRequests |-> << [id |-> 6, createdAt |-> t - 10, updatedAt |-> t - 2,
                            requestedBy |-> 2, status |-> "ordered",
                            lineItems |-> << [itemId |-> 3, quantity |-> 20, unit |-> "box"] >>] >>,
   auditLogs |-> << AuditEntry(7, 1, "system initialised", <<"system", 0>>, t - 15, "system", NoMeta) >>,
   activities |-> << ActivityEntry(8, "issue", "request submitted", t - 3) >>]

\* ------------------------------------------------------------------------
\* The reducer, one operator per case.  id1, id2, id3 are the values of the
\* successive nanoid() calls of the case, t is formatISO(new Date()).
\* ------------------------------------------------------------------------
\* describeRequestTarget without the placeholder: a missing item has no name
describeRequestTarget_NoPlaceholder(lineItems, items) ==
  IF Len(lineItems) = 0
  THEN [label |-> <<"no request items", 0>>, itemNames |-> <<>>]
  ELSE LET itemNames == [i \in 1..Len(lineItems) |->
                           IF lineItems[i].itemId \in Ids(items)
                           THEN FindById(items, lineItems[i].itemId).name
                           ELSE ""]
           extra == Len(itemNames) - 1
       IN  [label |-> <<itemNames[1], IF extra > 0 THEN extra ELSE 0>>,
            itemNames |-> itemNames]

describeRequestTarget(lineItems, items) ==
  IF Len(lineItems) = 0
  THEN [label |-> <<"no request items", 0>>, itemNames |-> <<>>]
  ELSE LET itemNames == [i \in 1..Len(lineItems) |->
                           IF lineItems[i].itemId \in Ids(items)
                           THEN FindById(items, lineItems[i].itemId).name
                           ELSE "unknown item"]
           extra == Len(itemNames) - 1
       IN  [label |-> <<itemNames[1], IF extra > 0 THEN extra ELSE 0>>,
            itemNames |-> itemNames]

\* HYDRATE that keeps the audit log of the state it replaces
ReduceHydrate_AuditKept(s, payload) == [payload EXCEPT !.auditLogs = s.auditLogs]

ReduceHydrate(s, payload) == payload

ReduceAddItem(s, item, actorId, t, id1, id2) ==
  LET audit == AuditEntry(id1, actorId, "item registered", <<item.name, 0>>, t, "item",
                          [NoMeta EXCEPT !.keys = {"sku"}, !.sku = item.sku])
      activity == ActivityEntry(id2, "inventory", "item added", t)
  IN  [s EXCEPT !.items = Append(s.items, item),
                !.auditLogs = <<audit>> \o s.auditLogs,
                !.activities = <<activity>> \o s.activities]

ReduceSetItems(s, newItems, actorId, t, id1) ==
  LET audit == AuditEntry(id1, actorId, "items bulk upload", <<"count", Len(newItems)>>, t, "item", NoMeta)
  IN  [s EXCEPT !.items = newItems,
                !.auditLogs = <<audit>> \o s.auditLogs]

ReduceUpdateItem(s, item, actorId, t, id1) ==
  LET audit == AuditEntry(id1, actorId, "item updated", <<item.name, 0>>, t, "item",
                          [NoMeta EXCEPT !.keys = {"stock"}, !.stock = item.stock])
  IN  [s EXCEPT !.items = ReplaceById(s.items, item.id, item),
                !.auditLogs = <<audit>> \o s.auditLogs]

\* ReduceDeleteItem with the audit entry added at the end of the log
ReduceDeleteItem_AuditAtEnd(s, id, actorId, t, id1) ==
  IF id \notin Ids(s.items) THEN s
  ELSE LET deleted == FindById(s.items, id)
           audit == AuditEntry(id1, actorId, "item deleted", <<deleted.name, 0>>, t, "item", NoMeta)
       IN  [s EXCEPT !.items = RemoveById(s.items, id),
                     !.auditLogs = Append(s.auditLogs, audit)]

ReduceDeleteItem(s, id, actorId, t, id1) ==
  IF id \notin Ids(s.items) THEN s
  ELSE LET deleted == FindById(s.items, id)
           audit == AuditEntry(id1, actorId, "item deleted", <<deleted.name, 0>>, t, "item", NoMeta)
       IN  [s EXCEPT !.items = RemoveById(s.items, id),
                     !.auditLogs = <<audit>> \o s.auditLogs]

\* ADJUST_INVENTORY with the delta taken the other way round
ReduceAdjustInventory_DeltaReversed(s, itemId, stock, actorId, t, id1, id2) ==
  IF itemId \notin Ids(s.items) THEN s
  ELSE LET item == FindById(s.items, itemId)
           updatedItem == [item EXCEPT !.stock = stock]
           delta == item.stock - stock
           direction == IF delta > 0 THEN "stock inbound"
                        ELSE IF delta < 0 THEN "stock outbound" ELSE "stock adjusted"
           audit == AuditEntry(id1, actorId, direction, <<item.name, 0>>, t, "inventory",
                               [NoMeta EXCEPT !.keys = {"stock", "note", "delta"},
                                              !.stock = stock, !.delta = delta])
           activity == ActivityEntry(id2, "inventory",
                                     IF delta = 0 THEN "stock set" ELSE direction, t)
       IN  [s EXCEPT !.items = ReplaceById(s.items, item.id, updatedItem),
                     !.auditLogs = <<audit>> \o s.auditLogs,
                     !.activities = <<activity>> \o s.activities]

ReduceAdjustInventory(s, itemId, stock, actorId, t, id1, id2) ==
  IF itemId \notin Ids(s.items) THEN s
  ELSE LET item == FindById(s.items, itemId)
           updatedItem == [item EXCEPT !.stock = stock]
           delta == stock - item.stock
           direction == IF delta > 0 THEN "stock inbound"
                        ELSE IF delta < 0 THEN "stock outbound" ELSE "stock adjusted"
           audit == AuditEntry(id1, actorId, direction, <<item.name, 0>>, t, "inventory",
                               [NoMeta EXCEPT !.keys = {"stock", "note", "delta"},
                                              !.stock = stock, !.delta = delta])
           activity == ActivityEntry(id2, "inventory",
                                     IF delta = 0 THEN "stock set" ELSE direction, t)
       IN  [s EXCEPT !.items = ReplaceById(s.items, item.id, updatedItem),
                     !.auditLogs = <<audit>> \o s.auditLogs,
                     !.activities = <<activity>> \o s.activities]

\* In the upsert cases t and t2 are the two values of formatISO(new Date()):
\* createdAt, updatedAt.
\* UPSERT_ISSUE_REQUEST that does not reopen a fulfilled request
ReduceUpsertIssueRequest_ClosedStaysClosed(s, request, actorId, description, t, t2, id1, id2, id3) ==
  LET existing == request.id \in Ids(s.issueRequests)
      req == IF existing
             THEN IF FindById(s.issueRequests, request.id).status = "fulfilled"
                  THEN [request EXCEPT !.status = "fulfilled"]
                  ELSE request
             ELSE [request EXCEPT !.id = id1]
      withTimestamps == [req EXCEPT !.createdAt = IF existing THEN req.createdAt ELSE t,
                                    !.updatedAt = t2]
      target == describeRequestTarget(withTimestamps.lineItems, s.items)
      audit == AuditEntry(id2, actorId, description, target.label, withTimestamps.updatedAt, "issue",
                          [NoMeta EXCEPT !.keys = {"status", "items"},
                                         !.status = withTimestamps.status,
                                         !.items = target.itemNames])
      updatedList == IF existing
                     THEN ReplaceById(s.issueRequests, withTimestamps.id, withTimestamps)
                     ELSE <<withTimestamps>> \o s.issueRequests
      activity == ActivityEntry(id3, "issue", description, withTimestamps.updatedAt)
  IN  [s EXCEPT !.issueRequests = updatedList,
                !.auditLogs = <<audit>> \o s.auditLogs,
                !.activities = <<activity>> \o s.activities]

ReduceUpsertIssueRequest(s, request, actorId, description, t, t2, id1, id2, id3) ==
  LET existing == request.id \in Ids(s.issueRequests)
      req == IF existing THEN request ELSE [request EXCEPT !.id = id1]
      withTimestamps == [req EXCEPT !.createdAt = IF existing THEN req.createdAt ELSE t,
                                    !.updatedAt = t2]
      target == describeRequestTarget(withTimestamps.lineItems, s.items)
      audit == AuditEntry(id2, actorId, description, target.label, withTimestamps.updatedAt, "issue",
                          [NoMeta EXCEPT !.keys = {"status", "items"},
                                         !.status = withTimestamps.status,
                                         !.items = target.itemNames])
      updatedList == IF existing
                     THEN ReplaceById(s.issueRequests, withTimestamps.id, withTimestamps)
                     ELSE <<withTimestamps>> \o s.issueRequests
      activity == ActivityEntry(id3, "issue", description, withTimestamps.updatedAt)
  IN  [s EXCEPT !.issueRequests = updatedList,
                !.auditLogs = <<audit>> \o s.auditLogs,
                !.activities = <<activity>> \o s.activities]

ReduceUpsertPurchaseRequest(s, request, actorId, description, t, t2, id1, id2, id3) ==
  LET existing == request.id \in Ids(s.purchaseRequests)
      req == IF existing THEN request ELSE [request EXCEPT !.id = id1]
      withTimestamps == [req EXCEPT !.createdAt = IF existing THEN req.createdAt ELSE t,
                                    !.updatedAt = t2]
      target == describeRequestTarget(withTimestamps.lineItems, s.items)
      audit == AuditEntry(id2, actorId, description, target.label, withTimestamps.updatedAt, "purchase",
                          [NoMeta EXCEPT !.keys = {"status", "items"},
                                         !.status = withTimestamps.status,
                                         !.items = target.itemNames])
      updatedList == IF existing
                     THEN ReplaceById(s.purchaseRequests, withTimestamps.id, withTimestamps)
                     ELSE <<withTimestamps>> \o s.purchaseRequests
      activity == ActivityEntry(id3, "purchase", description, withTimestamps.updatedAt)
  IN  [s EXCEPT !.purchaseRequests = updatedList,
                !.auditLogs = <<audit>> \o s.auditLogs,
                !.activities = <<activity>> \o s.activities]

ReduceDeleteIssueRequest(s, id, actorId, t, id1, id2) ==
  IF id \notin Ids(s.issueRequests) THEN s
  ELSE LET target == FindById(s.issueRequests, id)
           described == describeRequestTarget(target.lineItems, s.items)
           audit == AuditEntry(id1, actorId, "issue request deleted", described.label, t, "issue",
                               [NoMeta EXCEPT !.keys = {"status", "items"},
                                              !.status = target.status,
                                              !.items = described.itemNames])
           activity == ActivityEntry(id2, "issue", "issue request deleted", t)
       IN  [s EXCEPT !.issueRequests = RemoveById(s.issueRequests, target.id),
                     !.auditLogs = <<audit>> \o s.auditLogs,
                     !.activities = <<activity>> \o s.activities]

ReduceDeletePurchaseRequest(s, id, actorId, t, id1, id2) ==
  IF id \notin Ids(s.purchaseRequests) THEN s
  ELSE LET target == FindById(s.purchaseRequests, id)
           described == describeRequestTarget(target.lineItems, s.items)
           audit == AuditEntry(id1, actorId, "purchase request deleted", described.label, t, "purchase",
                               [NoMeta EXCEPT !.keys = {"status", "items"},
                                              !.status = target.status,
                                              !.items = described.itemNames])
           activity == ActivityEntry(id2, "purchase", "purchase request deleted", t)
       IN  [s EXCEPT !.purchaseRequests = RemoveById(s.purchaseRequests, target.id),
                     !.auditLogs = <<audit>> \o s.auditLogs,
                     !.activities = <<activity>> \o s.activities]

\* UPSERT_USER that appends the user also when the id is taken
ReduceUpsertUser_AlwaysAppends(s, user, actorId, description, t, id1, id2, id3) ==
  LET existing == user.id \in Ids(s.users)
      u == IF existing THEN user ELSE [user EXCEPT !.id = id1]
      audit == AuditEntry(id2, actorId, description, <<u.name, 0>>, t, "user",
                          [NoMeta EXCEPT !.keys = {"role", "process"}, !.role = u.role,
                                         !.process = u.process])
      newUsers == Append(s.users, u)
      activity == ActivityEntry(id3, "user", description, t)
  IN  [s EXCEPT !.users = newUsers,
                !.auditLogs = <<audit>> \o s.auditLogs,
                !.activities = <<activity>> \o s.activities]

ReduceUpsertUser(s, user, actorId, description, t, id1, id2, id3) ==
  LET existing == user.id \in Ids(s.users)
      u == IF existing THEN user ELSE [user EXCEPT !.id = id1]
      audit == AuditEntry(id2, actorId, description, <<u.name, 0>>, t, "user",
                          [NoMeta EXCEPT !.keys = {"role", "process"}, !.role = u.role,
                                         !.process = u.process])
      newUsers == IF existing THEN ReplaceById(s.users, u.id, u) ELSE Append(s.users, u)
      activity == ActivityEntry(id3, "user", description, t)
  IN  [s EXCEPT !.users = newUsers,
                !.auditLogs = <<audit>> \o s.auditLogs,
                !.activities = <<activity>> \o s.activities]

ReduceRemoveUser(s, id, actorId, t, id1) ==
  IF id \notin Ids(s.users) THEN s
  ELSE LET user == FindById(s.users, id)
           audit == AuditEntry(id1, actorId, "user deleted", <<user.name, 0>>, t, "user", NoMeta)
       IN  [s EXCEPT !.users = RemoveById(s.users, id),
                     !.auditLogs = <<audit>> \o s.auditLogs]

\* DELETE_AUDIT_LOG that records the removal but keeps the entry
ReduceDeleteAuditLog_EntryKept(s, id, actorId, t, id1) ==
  IF id \notin Ids(s.auditLogs) THEN s
  ELSE LET targetLog == FindById(s.auditLogs, id)
           filtered == s.auditLogs
           audit == AuditEntry(id1, actorId, "log deleted", <<targetLog.action, 0>>, t, "system",
                               [NoMeta EXCEPT !.keys = {"removedLogId"},
                                              !.removedLogId = targetLog.id])
       IN  [s EXCEPT !.auditLogs = <<audit>> \o filtered]

ReduceDeleteAuditLog(s, id, actorId, t, id1) ==
  IF id \notin Ids(s.auditLogs) THEN s
  ELSE LET targetLog == FindById(s.auditLogs, id)
           filtered == RemoveById(s.auditLogs, id)
           audit == AuditEntry(id1, actorId, "log deleted", <<targetLog.action, 0>>, t, "system",
                               [NoMeta EXCEPT !.keys = {"removedLogId"},
                                              !.removedLogId = targetLog.id])
       IN  [s EXCEPT !.auditLogs = <<audit>> \o filtered]

ReduceClearAuditLogs(s, actorId, t, id1) ==
  LET audit == AuditEntry(id1, actorId, "logs cleared", <<"audit-log", 0>>, t, "system", NoMeta)
  IN  [s EXCEPT !.auditLogs = <<audit>>]

\* ------------------------------------------------------------------------
\* Inputs of the operations the DataProvider exposes
\* ------------------------------------------------------------------------
Actors == {1}

\* an id that no entity of the store has (a stale or mistyped id)
StaleIds == {0}

NewItems ==
  { [id |-> 0, name |-> "Toner", unit |-> "box", sku |-> "ST-003", threshold |-> 5, stock |-> 0] }

StaleItem ==
  [id |-> 0, name |-> "Stapler", unit |-> "each", sku |-> "ST-009", threshold |-> 1, stock |-> 3]

\* the item lists handleImport builds from a CSV file: threshold and stock
\* are Number(row.threshold) and Number(row.stock), whatever the file says
ImportedItemLists ==
  { <<>>,
    << [id |-> 3, name |-> "A4 paper", unit |-> "box", sku |-> "ST-001",
        threshold |-> 5, stock |-> 30] >>,
    << [id |-> 3, name |-> "A4 paper", unit |-> "box", sku |-> "ST-001",
        threshold |-> 5, stock |-> -5] >> }

StockInputs == {0, 12}

\* IssueRequest['status'] and PurchaseRequest['status']
IssueStatusInputs == {"draft", "submitted", "approved", "rejected", "fulfilled"}

PurchaseStatusInputs == {"draft", "submitted", "approved", "ordered"}

LineItemInputs ==
  { <<>>, << [itemId |-> 3, quantity |-> 2, unit |-> "box"] >> }

Dispatched(type, id) == [type |-> type, id |-> id, prev |-> state]

\* ------------------------------------------------------------------------
\* The operations: each wrapper of the context value dispatches one action
\* ------------------------------------------------------------------------
\* a second passes
\* what a second formatISO(new Date()) of the same handler can return: the
\* clock may have moved on to the next second since the first
ClockReads == {now} \cup (IF now < MaxTime THEN {now + 1} ELSE {})

Tick ==
  /\ now < MaxTime
  /\ now' = now + 1
  /\ UNCHANGED <<state, nextId, steps, last>>
  /\ UNCHANGED <<repoVars, syncVars, chanVars, calcVars>>

\* the states the DataProvider hydrates with: a fresh seed (reset, failed
\* mount load), a state another tab saved, the state this tab saved itself
HydratePayloads ==
  { createInitialDataState(now),
    [createInitialDataState(0) EXCEPT !.items = <<>>],
    state }

\* dispatch({ type: 'HYDRATE', payload })
HydrateWith(payload) ==
  /\ steps < MaxSteps
  /\ state' = ReduceHydrate(state, payload)
  /\ last' = Dispatched("HYDRATE", 0)
  /\ steps' = steps + 1
  /\ UNCHANGED <<now, nextId>>
  /\ UNCHANGED <<repoVars, syncVars, chanVars, calcVars>>

Hydrate == \E payload \in HydratePayloads : HydrateWith(payload)

addItem ==
  /\ steps < MaxSteps
  /\ \E item \in NewItems, actorId \in Actors :
       /\ state' = ReduceAddItem(state, [item EXCEPT !.id = nextId], actorId, now,
                                 nextId + 1, nextId + 2)
       /\ last' = Dispatched("ADD_ITEM", nextId)
  /\ nextId' = nextId + 3
  /\ steps' = steps + 1
  /\ UNCHANGED now
  /\ UNCHANGED <<repoVars, syncVars, chanVars, calcVars>>

importItems ==
  /\ steps < MaxSteps
  /\ \E newItems \in ImportedItemLists, actorId \in Actors :
       /\ state' = ReduceSetItems(state, newItems, actorId, now, nextId)
       /\ last' = Dispatched("SET_ITEMS", 0)
  /\ nextId' = nextId + 1
  /\ steps' = steps + 1
  /\ UNCHANGED now
  /\ UNCHANGED <<repoVars, syncVars, chanVars, calcVars>>

updateItem ==
  /\ steps < MaxSteps
  /\ \E id \in Ids(state.items) \cup StaleIds, stock \in StockInputs, actorId \in Actors :
       LET item == IF id \in Ids(state.items)
                   THEN [FindById(state.items, id) EXCEPT !.stock = stock]
                   ELSE [StaleItem EXCEPT !.id = id]
       IN  /\ state' = ReduceUpdateItem(state, item, actorId, now, nextId)
           /\ last' = Dispatched("UPDATE_ITEM", id)
  /\ nextId' = nextId + 1
  /\ steps' = steps + 1
  /\ UNCHANGED now
  /\ UNCHANGED <<repoVars, syncVars, chanVars, calcVars>>

deleteItem ==
  /\ steps < MaxSteps
  /\ \E id \in Ids(state.items) \cup StaleIds, actorId \in Actors :
       /\ state' = ReduceDeleteItem(state, id, actorId, now, nextId)
       /\ last' = Dispatched("DELETE_ITEM", id)
  /\ nextId' = nextId + 1
  /\ steps' = steps + 1
  /\ UNCHANGED now
  /\ UNCHANGED <<repoVars, syncVars, chanVars, calcVars>>

adjustInventory ==
  /\ steps < MaxSteps
  /\ \E itemId \in Ids(state.items) \cup StaleIds, stock \in StockInputs, actorId \in Actors :
       /\ state' = ReduceAdjustInventory(state, itemId, stock, actorId, now, nextId, nextId + 1)
       /\ last' = Dispatched("ADJUST_INVENTORY", itemId)
  /\ nextId' = nextId + 2
  /\ steps' = steps + 1
  /\ UNCHANGED now
  /\ UNCHANGED <<repoVars, syncVars, chanVars, calcVars>>

\* upsertIssueRequest(request, actorId, description): id and createdAt are
\* optional; hasId/hasCreatedAt say whether the caller passes them.  A
\* caller that passes createdAt passes the one of the request it edits.
upsertIssueRequest ==
  /\ steps < MaxSteps
  /\ \E hasId \in BOOLEAN, hasCreatedAt \in BOOLEAN, status \in IssueStatusInputs,
        lineItems \in LineItemInputs, actorId \in Actors :
       \E id \in IF hasId THEN Ids(state.issueRequests) ELSE {nextId} :
         LET createdAt == IF hasId /\ hasCreatedAt
                          THEN FindById(state.issueRequests, id).createdAt
                          ELSE now
             request == [id |-> id, createdAt |-> createdAt, updatedAt |-> now,
                         requestedBy |-> 2, status |-> status, lineItems |-> lineItems]
         IN  /\ hasId \/ hasCreatedAt
             /\ \E later \in ClockReads :
                  /\ state' = ReduceUpsertIssueRequest(state, request, actorId,
                                                       "issue request saved", now, later,
                                                       nextId + 1, nextId + 2, nextId + 3)
                  /\ now' = later
             /\ last' = Dispatched("UPSERT_ISSUE_REQUEST", id)
  /\ nextId' = nextId + 4
  /\ steps' = steps + 1
  /\ UNCHANGED <<repoVars, syncVars, chanVars, calcVars>>

upsertPurchaseRequest ==
  /\ steps < MaxSteps
  /\ \E hasId \in BOOLEAN, hasCreatedAt \in BOOLEAN, status \in PurchaseStatusInputs,
        lineItems \in LineItemInputs, actorId \in Actors :
       \E id \in IF hasId THEN Ids(state.purchaseRequests) ELSE {nextId} :
         LET createdAt == IF hasId /\ hasCreatedAt
                          THEN FindById(state.purchaseRequests, id).createdAt
                          ELSE now
             request == [id |-> id, createdAt |-> createdAt, updatedAt |-> now,
                         requestedBy |-> 2, status |-> status, lineItems |-> lineItems]
         IN  /\ hasId \/ hasCreatedAt
             /\ \E later \in ClockReads :
                  /\ state' = ReduceUpsertPurchaseRequest(state, request, actorId,
                                                          "purchase request saved", now, later,
                                                          nextId + 1, nextId + 2, nextId + 3)
                  /\ now' = later
             /\ last' = Dispatched("UPSERT_PURCHASE_REQUEST", id)
  /\ nextId' = nextId + 4
  /\ steps' = steps + 1
  /\ UNCHANGED <<repoVars, syncVars, chanVars, calcVars>>

removeIssueRequest ==
  /\ steps < MaxSteps
  /\ \E id \in Ids(state.issueRequests) \cup StaleIds, actorId \in Actors :
       /\ state' = ReduceDeleteIssueRequest(state, id, actorId, now, nextId, nextId + 1)
       /\ last' = Dispatched("DELETE_ISSUE_REQUEST", id)
  /\ nextId' = nextId + 2
  /\ steps' = steps + 1
  /\ UNCHANGED now
  /\ UNCHANGED <<repoVars, syncVars, chanVars, calcVars>>

removePurchaseRequest ==
  /\ steps < MaxSteps
  /\ \E id \in Ids(state.purchaseRequests) \cup StaleIds, actorId \in Actors :
       /\ state' = ReduceDeletePurchaseRequest(state, id, actorId, now, nextId, nextId + 1)
       /\ last' = Dispatched("DELETE_PURCHASE_REQUEST", id)
  /\ nextId' = nextId + 2
  /\ steps' = steps + 1
  /\ UNCHANGED now
  /\ UNCHANGED <<repoVars, syncVars, chanVars, calcVars>>

upsertUser ==
  /\ steps < MaxSteps
  /\ \E hasId \in BOOLEAN, role \in {"admin", "user"}, actorId \in Actors :
       \E id \in IF hasId THEN Ids(state.users) ELSE {nextId} :
         LET user == IF hasId
                     THEN [FindById(state.users, id) EXCEPT !.role = role]
                     ELSE [id |-> id, name |-> "New user", role |-> role, process |-> "QA"]
         IN  /\ state' = ReduceUpsertUser(state, user, actorId, "user saved", now,
                                          nextId + 1, nextId + 2, nextId + 3)
             /\ last' = Dispatched("UPSERT_USER", id)
  /\ nextId' = nextId + 4
  /\ steps' = steps + 1
  /\ UNCHANGED now
  /\ UNCHANGED <<repoVars, syncVars, chanVars, calcVars>>

removeUser ==
  /\ steps < MaxSteps
  /\ \E id \in Ids(state.users) \cup StaleIds, actorId \in Actors :
       /\ state' = ReduceRemoveUser(state, id, actorId, now, nextId)
       /\ last' = Dispatched("REMOVE_USER", id)
  /\ nextId' = nextId + 1
  /\ steps' = steps + 1
  /\ UNCHANGED now
  /\ UNCHANGED <<repoVars, syncVars, chanVars, calcVars>>

deleteAuditLog ==
  /\ steps < MaxSteps
  /\ \E id \in Ids(state.auditLogs) \cup StaleIds, actorId \in Actors :
       /\ state' = ReduceDeleteAuditLog(state, id, actorId, now, nextId)
       /\ last' = Dispatched("DELETE_AUDIT_LOG", id)
  /\ nextId' = nextId + 1
  /\ steps' = steps + 1
  /\ UNCHANGED now
  /\ UNCHANGED <<repoVars, syncVars, chanVars, calcVars>>

clearAuditLogs ==
  /\ steps < MaxSteps
  /\ \E actorId \in Actors :
       /\ state' = ReduceClearAuditLogs(state, actorId, now, nextId)
       /\ last' = Dispatched("CLEAR_AUDIT_LOGS", 0)
  /\ nextId' = nextId + 1
  /\ steps' = steps + 1
  /\ UNCHANGED now
  /\ UNCHANGED <<repoVars, syncVars, chanVars, calcVars>>

StoreInit ==
  /\ state = createInitialDataState(0)
  /\ now = 0
  /\ nextId = 9
  /\ steps = 0
  /\ last = [type |-> "INIT", id |-> 0, prev |-> createInitialDataState(0)]

StoreNext ==
  \/ Tick
  \/ Hydrate
  \/ addItem
  \/ importItems
  \/ updateItem
  \/ deleteItem
  \/ adjustInventory
  \/ upsertIssueRequest
  \/ upsertPurchaseRequest
  \/ removeIssueRequest
  \/ removePurchaseRequest
  \/ upsertUser
  \/ removeUser
  \/ deleteAuditLog
  \/ clearAuditLogs

\* ------------------------------------------------------------------------
\* calculateTotalQuantity(lineItems, items, unit)
\* ------------------------------------------------------------------------
UnitTypes == {"box", "each"}

\* the callback with a conversion that does not look at the item's unit
AddLine_ConvertsAnyItem(total, line, items, unit) ==
  IF line.itemId \notin Ids(items) THEN total
  ELSE IF unit = line.unit THEN total + line.quantity
  ELSE LET conversion == IF unit = "each" THEN 10 ELSE 1
       IN  total + line.quantity * conversion

\* the callback of lineItems.reduce
AddLine(total, line, items, unit) ==
  IF line.itemId \notin Ids(items) THEN total
  ELSE IF unit = line.unit THEN total + line.quantity
  ELSE LET item == FindById(items, line.itemId)
           conversion == IF item.unit = "box" /\ unit = "each" THEN 10 ELSE 1
       IN  total + line.quantity * conversion

RECURSIVE ReduceLines(_, _, _, _, _)
\* lineItems.reduce(callback, 0), from line i on with the running total
ReduceLines(lineItems, i, total, items, unit) ==
  IF i > Len(lineItems) THEN total
  ELSE ReduceLines(lineItems, i + 1, AddLine(total, lineItems[i], items, unit), items, unit)

calculateTotalQuantity(lineItems, items, unit) == ReduceLines(lineItems, 1, 0, items, unit)

\* the lines of a request: any item, also one that is gone, in either unit
LineInputs ==
  [itemId : {0, 3, 4}, quantity : 1..MaxQuantity, unit : UnitTypes]

LineItemLists ==
  UNION { [1..n -> LineInputs] : n \in 0..MaxLines }

\* item lists: the seeded one, one without item 3, one with item 3 counted
\* in single pieces
ItemLists ==
  { createInitialDataState(0).items,
    RemoveById(createInitialDataState(0).items, 3),
    ReplaceById(createInitialDataState(0).items, 3,
                [FindById(createInitialDataState(0).items, 3) EXCEPT !.unit = "each"]) }

calculateTotal ==
  /\ calcTotal = <<>>
  /\ calcTotal' = << calculateTotalQuantity(calcLineItems, calcItems, calcUnit) >>
  /\ UNCHANGED <<calcLineItems, calcItems, calcUnit>>
  /\ UNCHANGED <<storeVars, repoVars, syncVars, chanVars>>

CalcInit ==
  /\ calcLineItems \in LineItemLists
  /\ calcItems \in ItemLists
  /\ calcUnit \in UnitTypes
  /\ calcTotal = <<>>

\* no calculation is going on while another part of the system is explored
CalcIdle ==
  /\ calcLineItems = <<>>
  /\ calcItems = <<>>
  /\ calcUnit = "each"
  /\ calcTotal = <<>>

CalcNext == calculateTotal

\* ------------------------------------------------------------------------
\* The repository: services/data-repository.ts
\* ------------------------------------------------------------------------
\* JSON.stringify(state), and a value of the key that JSON.parse rejects
Stringify(s) == [kind |-> "json", doc |-> s]

\* a value of the key that JSON.parse rejects: a snapshot cut off in the
\* middle of the text
CorruptSnapshot == [kind |-> "truncated", doc |-> createInitialDataState(0)]

\* LocalStorageRepository.load(): null when the key is absent or unparsable
\* LocalStorageRepository.load() without the catch around JSON.parse:
\* "threw" stands for the rejected promise
LocalStorageRepository_load_Uncaught(raw) ==
  IF Len(raw) = 0 THEN <<>>
  ELSE IF raw[1].kind = "json" THEN <<raw[1].doc>>
  ELSE <<"threw">>

LocalStorageRepository_load(raw) ==
  IF Len(raw) = 0 THEN <<>>
  ELSE IF raw[1].kind = "json" THEN <<raw[1].doc>>
  ELSE <<>>

\* LocalStorageRepository.save(state)
LocalStorageRepository_save(s) == << Stringify(s) >>

\* HttpRepository.load(): 204 gives null, a failed request throws
HttpRepository_load(blob, net) ==
  IF net = "fail" THEN [threw |-> TRUE, value |-> <<>>]
  ELSE [threw |-> FALSE, value |-> blob]

\* createDefaultRepository().primary.load()
primary_load(remoteConfigured, blob, raw, net) ==
  IF remoteConfigured THEN HttpRepository_load(blob, net)
  ELSE [threw |-> FALSE, value |-> LocalStorageRepository_load(raw)]

Settled(outcome, source, s, newRemote, newLocal, newCustom) ==
  [outcome |-> outcome, source |-> source, state |-> s,
   remote |-> newRemote, local |-> newLocal, custom |-> newCustom]

\* loadDataState(): the promise's outcome and the stores it leaves behind.
\* net is the outcome of the request to the backend, storage says whether
\* localStorage.setItem succeeds ("full": it throws), seeded is the value
\* of createInitialDataState().
loadDataState(isCustom, custom, remoteConfigured, blob, raw, net, storage, seeded) ==
  IF isCustom
  THEN Settled("resolved", "local", IF Len(custom) > 0 THEN custom ELSE <<seeded>>,
               blob, raw, custom)
  ELSE LET loaded == primary_load(remoteConfigured, blob, raw, net)
       IN  IF ~loaded.threw /\ Len(loaded.value) > 0 /\ storage = "ok"
           THEN Settled("resolved", "remote", loaded.value,
                        blob, LocalStorageRepository_save(loaded.value[1]), custom)
           ELSE LET fromLocal == LocalStorageRepository_load(raw)
                IN  IF Len(fromLocal) > 0
                    THEN Settled("resolved", "local", fromLocal, blob, raw, custom)
                    ELSE IF storage = "ok"
                    THEN Settled("resolved", "seed", <<seeded>>,
                                 blob, LocalStorageRepository_save(seeded), custom)
                    ELSE Settled("rejected", "", <<>>, blob, raw, custom)

\* saveDataState(state)
saveDataState(isCustom, custom, remoteConfigured, blob, raw, net, storage, s) ==
  IF isCustom
  THEN Settled("resolved", "", <<>>, blob, raw, <<s>>)
  ELSE IF storage = "full"
  THEN Settled("rejected", "", <<>>, blob, raw, custom)
  ELSE Settled("resolved", "", <<>>,
               IF remoteConfigured /\ net = "ok" THEN <<s>> ELSE blob,
               LocalStorageRepository_save(s), custom)

\* clearDataState()
clearDataState(isCustom, custom, remoteConfigured, blob, raw, net) ==
  IF isCustom
  THEN Settled("resolved", "", <<>>, blob, raw, <<>>)
  ELSE Settled("resolved", "", <<>>,
               IF remoteConfigured /\ net = "ok" THEN <<>> ELSE blob,
               <<>>, custom)

NetOutcomes == {"ok", "fail"}

StorageOutcomes == {"ok", "full"}

\* states handed to saveDataState: the seed with a list changed
UpdatedStates ==
  { [createInitialDataState(0) EXCEPT !.items = <<>>],
    [createInitialDataState(0) EXCEPT !.users = Append(@, [id |-> 9, name |-> "Tester",
                                                          role |-> "user", process |-> "QA"])] }

\* snapshot: what localStorage held under the key when the operation began
Operation(op, net, storage, arg, settled) ==
  [op |-> op, custom |-> customSet, net |-> net, storage |-> storage, arg |-> arg,
   snapshot |-> IF Len(local) = 0 THEN "absent" ELSE local[1].kind,
   outcome |-> settled.outcome, source |-> settled.source, state |-> settled.state]

NoOperation ==
  [op |-> "none", custom |-> FALSE, net |-> "ok", storage |-> "ok", arg |-> <<>>,
   snapshot |-> "absent",
   outcome |-> "resolved", source |-> "", state |-> <<>>]

\* setRepository(repository): install an empty custom repository, or null
setRepository ==
  /\ repoOps < MaxRepoOps
  /\ \E on \in BOOLEAN :
       /\ customSet' = on
       /\ customStore' = <<>>
  /\ repoOps' = repoOps + 1
  /\ UNCHANGED <<hasRemote, remote, local, lastOp, prevOp>>
  /\ UNCHANGED <<storeVars, syncVars, chanVars, calcVars>>

LoadDataState ==
  /\ repoOps < MaxRepoOps
  /\ \E net \in NetOutcomes, storage \in StorageOutcomes :
       LET settled == loadDataState(customSet, customStore, hasRemote, remote, local, net,
                                    storage, createInitialDataState(now))
       IN  /\ remote' = settled.remote
           /\ local' = settled.local
           /\ customStore' = settled.custom
           /\ lastOp' = Operation("load", net, storage, <<>>, settled)
  /\ prevOp' = lastOp
  /\ repoOps' = repoOps + 1
  /\ UNCHANGED <<hasRemote, customSet>>
  /\ UNCHANGED <<storeVars, syncVars, chanVars, calcVars>>

SaveDataState ==
  /\ repoOps < MaxRepoOps
  /\ \E net \in NetOutcomes, storage \in StorageOutcomes, s \in UpdatedStates :
       LET settled == saveDataState(customSet, customStore, hasRemote, remote, local, net,
                                    storage, s)
       IN  /\ remote' = settled.remote
           /\ local' = settled.local
           /\ customStore' = settled.custom
           /\ lastOp' = Operation("save", net, storage, <<s>>, settled)
  /\ prevOp' = lastOp
  /\ repoOps' = repoOps + 1
  /\ UNCHANGED <<hasRemote, customSet>>
  /\ UNCHANGED <<storeVars, syncVars, chanVars, calcVars>>

ClearDataState ==
  /\ repoOps < MaxRepoOps
  /\ \E net \in NetOutcomes :
       LET settled == clearDataState(customSet, customStore, hasRemote, remote, local, net)
       IN  /\ remote' = settled.remote
           /\ local' = settled.local
           /\ customStore' = settled.custom
           /\ lastOp' = Operation("clear", net, "ok", <<>>, settled)
  /\ prevOp' = lastOp
  /\ repoOps' = repoOps + 1
  /\ UNCHANGED <<hasRemote, customSet>>
  /\ UNCHANGED <<storeVars, syncVars, chanVars, calcVars>>

\* a session starts with whatever earlier sessions left in the stores
RepoInit ==
  /\ hasRemote \in BOOLEAN
  /\ remote \in {<<>>, <<createInitialDataState(0)>>}
  /\ local \in {<<>>, LocalStorageRepository_save(createInitialDataState(0)),
               <<CorruptSnapshot>>}
  /\ (~hasRemote => remote = <<>>)
  /\ customSet = FALSE
  /\ customStore = <<>>
  /\ repoOps = 0
  /\ lastOp = NoOperation
  /\ prevOp = NoOperation

\* the repository while another part of the system is explored
RepoIdle ==
  /\ hasRemote = TRUE
  /\ remote = <<>>
  /\ local = <<>>
  /\ customSet = FALSE
  /\ customStore = <<>>
  /\ repoOps = 0
  /\ lastOp = NoOperation
  /\ prevOp = NoOperation

RepoNext ==
  \/ setRepository
  \/ LoadDataState
  \/ SaveDataState
  \/ ClearDataState

\* ------------------------------------------------------------------------
\* The sync channel: services/sync-channel.ts
\* An event is what the browser hands to a listener: the key of a storage
\* event ("sync" for STORAGE_EVENT_KEY; message events carry none that
\* matters), and its data (event.data, or event.newValue): <<>> for null,
\* else one record, either a message with its originId or text that
\* JSON.parse rejects.
\* ------------------------------------------------------------------------
Contexts == 1..MaxContexts

Channels == 1..MaxChannels

\* { ...message, originId: instanceId }
SyncMessage(origin) == [kind |-> "message", originId |-> origin]

Unparsable == [kind |-> "garbage", originId |-> 0]

Event(key, data) == [key |-> key, data |-> data]

\* the BroadcastChannel listener: is onMessage called
broadcastListener(instanceId, event) ==
  IF event.data = <<>> \/ event.data[1].originId = instanceId THEN FALSE
  ELSE TRUE

\* the storage listener with the origin test left out
storageListener_NoOriginTest(instanceId, event) ==
  IF event.key # "sync" \/ event.data = <<>> THEN FALSE
  ELSE IF event.data[1].kind = "garbage" THEN FALSE
  ELSE TRUE

\* the storage-event listener: is onMessage called
storageListener(instanceId, event) ==
  IF event.key # "sync" \/ event.data = <<>> THEN FALSE
  ELSE IF event.data[1].kind = "garbage" THEN FALSE
  ELSE IF event.data[1].originId = instanceId THEN FALSE
  ELSE TRUE

\* the listener createSyncChannel registered
listener(mode, instanceId, event) ==
  IF mode = "broadcast" THEN broadcastListener(instanceId, event)
  ELSE storageListener(instanceId, event)

\* what other scripts of the origin can make the browser dispatch
ForeignEvents ==
  { Event(k, <<SyncMessage(o)>>) : k \in {"sync", "other"}, o \in Contexts }
    \cup { Event("sync", <<>>), Event("sync", <<Unparsable>>) }

\* the browser dispatches event to the listener of channel ch
Delivered(ch, event) ==
  [to |-> ch, event |-> event, invoked |-> listener(chanMode, chanOwner[ch], event)]

\* the originIds onMessage of channel ch was called with
Handled(ch, dispatches) ==
  { dsp.event.data[1].originId : dsp \in {x \in dispatches : x.to = ch /\ x.invoked} }

\* the listeners notify(message) of channel ch reaches, and with what:
\* postMessage reaches every other channel object of the name; setItem and
\* removeItem raise a storage event in every other document
notifyEvents(ch) ==
  LET message == SyncMessage(chanOwner[ch])
      others == {c \in Channels : chanOwner[c] # chanOwner[ch]}
  IN  IF chanMode = "broadcast"
      THEN { <<r, Event("sync", <<message>>)>> : r \in Channels \ {ch} }
      ELSE { <<r, Event("sync", <<message>>)>> : r \in others }
             \cup { <<r, Event("sync", <<>>)>> : r \in others }

\* notify(message) of channel ch, and the listeners it wakes
ChanNotify(ch) ==
  /\ chanSteps < MaxChanSteps
  /\ chanSteps' = chanSteps + 1
  /\ chanLast' = { Delivered(pair[1], pair[2]) : pair \in notifyEvents(ch) }
  /\ chanCalls' = [r \in Channels |-> chanCalls[r] \cup Handled(r, chanLast')]
  /\ UNCHANGED <<chanMode, chanOwner>>
  /\ UNCHANGED <<storeVars, repoVars, syncVars, calcVars>>

\* another script of the origin posts on the channel name or writes a key,
\* and the listener of channel ch is woken
ChanForeign(ch, event) ==
  /\ chanSteps < MaxChanSteps
  /\ chanSteps' = chanSteps + 1
  /\ chanLast' = { Delivered(ch, event) }
  /\ chanCalls' = [r \in Channels |-> chanCalls[r] \cup Handled(r, chanLast')]
  /\ UNCHANGED <<chanMode, chanOwner>>
  /\ UNCHANGED <<storeVars, repoVars, syncVars, calcVars>>

\* every context has loaded the module; channel 1 belongs to context 1
ChanInit ==
  /\ chanMode \in {"broadcast", "storage"}
  /\ chanOwner \in [Channels -> Contexts]
  /\ chanOwner[1] = 1
  /\ \A c \in Contexts : \E ch \in Channels : chanOwner[ch] = c
  /\ chanCalls = [ch \in Channels |-> {}]
  /\ chanLast = {}
  /\ chanSteps = 0

\* the channel while another part of the system is explored
ChanIdle ==
  /\ chanMode = "broadcast"
  /\ chanOwner = [ch \in Channels |-> 1]
  /\ chanCalls = [ch \in Channels |-> {}]
  /\ chanLast = {}
  /\ chanSteps = 0

ChanNext ==
  \/ \E ch \in Channels : ChanNotify(ch)
  \/ \E ch \in Channels : \E event \in ForeignEvents : ChanForeign(ch, event)

\* ------------------------------------------------------------------------
\* The DataProvider of every tab and the sync channel.
\* A tab's state is the set of user mutations it contains; the seed is {}.
\* A dispatch, the render it causes and the persist effect of that render are
\* one step: React runs the effects of a render before it handles the next
\* update.  A request has two steps: the backend answers it, and later its
\* continuation runs in the tab.
\* ------------------------------------------------------------------------
AllTabs == 1..MaxTabs

SeedState == {}

NetChoices == IF faults < MaxFaults THEN NetOutcomes ELSE {"ok"}

StorageChoices == IF faults < MaxFaults THEN StorageOutcomes ELSE {"ok"}

Faults(net, storage) == IF net = "fail" \/ storage = "full" THEN 1 ELSE 0

RemoveAt(seq, i) == SubSeq(seq, 1, i - 1) \o SubSeq(seq, i + 1, Len(seq))

\* the cleanup of the persist effect: cancelled = true
CancelAll(seq) == [i \in 1..Len(seq) |-> [seq[i] EXCEPT !.cancelled = TRUE]]

\* the body of the persist effect: does it call saveDataState, and the refs after it
persistEffect(hydrated, skipP, skipB) ==
  IF ~hydrated THEN [save |-> FALSE, skipPersist |-> skipP, skipBroadcast |-> skipB]
  ELSE IF skipP THEN [save |-> FALSE, skipPersist |-> FALSE, skipBroadcast |-> FALSE]
  ELSE [save |-> TRUE, skipPersist |-> skipP, skipBroadcast |-> skipB]

\* a persist effect whose cleanup would abort the request of the earlier save
Render_DropsInFlight(t, v, cause, hydrated, skipP, skipB, syncing, storage) ==
  LET eff == persistEffect(hydrated, skipP, skipB)
      call == [val |-> v, cause |-> cause, cancelled |-> FALSE,
               mut |-> IF cause = "user" THEN mutCount + 1 ELSE 0,
               phase |-> IF storage = "ok" THEN "sent" ELSE "answered",
               outcome |-> saveDataState(customSet, customStore, hasRemote, remote, local,
                                         "fail", storage, v).outcome]
  IN  /\ store' = [store EXCEPT ![t] = v]
      /\ skipPersist' = [skipPersist EXCEPT ![t] = eff.skipPersist]
      /\ skipBroadcast' = [skipBroadcast EXCEPT ![t] = eff.skipBroadcast]
      /\ saves' = [saves EXCEPT ![t] = IF eff.save THEN <<call>>
                                       ELSE CancelAll(@)]
      /\ isSyncing' = [isSyncing EXCEPT ![t] = IF eff.save THEN TRUE ELSE syncing]
      /\ handed' = IF eff.save THEN handed \cup v ELSE handed

\* a render of tab t with state v, and its persist effect.  cause is what
\* dispatched; hydrated, skipP, skipB are isHydrated and the refs when the
\* effect runs; syncing is isSyncing before the effect; storage is the
\* outcome of the localStorage write of the saveDataState call, if any.
Render(t, v, cause, hydrated, skipP, skipB, syncing, storage) ==
  LET eff == persistEffect(hydrated, skipP, skipB)
      call == [val |-> v, cause |-> cause, cancelled |-> FALSE,
               mut |-> IF cause = "user" THEN mutCount + 1 ELSE 0,
               phase |-> IF storage = "ok" THEN "sent" ELSE "answered",
               outcome |-> saveDataState(customSet, customStore, hasRemote, remote, local,
                                         "fail", storage, v).outcome]
  IN  /\ store' = [store EXCEPT ![t] = v]
      /\ skipPersist' = [skipPersist EXCEPT ![t] = eff.skipPersist]
      /\ skipBroadcast' = [skipBroadcast EXCEPT ![t] = eff.skipBroadcast]
      /\ saves' = [saves EXCEPT ![t] = IF eff.save THEN Append(CancelAll(@), call)
                                       ELSE CancelAll(@)]
      /\ isSyncing' = [isSyncing EXCEPT ![t] = IF eff.save THEN TRUE ELSE syncing]
      /\ handed' = IF eff.save THEN handed \cup v ELSE handed

\* localStorage after that render: saveDataState writes it before the request
LocalAfterRender(v, hydrated, skipP, skipB, before, storage) ==
  IF persistEffect(hydrated, skipP, skipB).save
  THEN saveDataState(customSet, customStore, hasRemote, remote, before, "fail", storage, v).local
  ELSE before

\* a wrapper of the context value dispatches an action that changes the state
Mutate(t) ==
  /\ isHydrated[t]
  /\ mutCount < MaxMutations
  /\ Len(saves[t]) < MaxSaves
  /\ \E storage \in StorageChoices :
       /\ Render(t, store[t] \cup {mutCount + 1}, "user", isHydrated[t],
                 skipPersist[t], skipBroadcast[t], isSyncing[t], storage)
       /\ local' = LocalAfterRender(store[t] \cup {mutCount + 1}, isHydrated[t],
                                    skipPersist[t], skipBroadcast[t], local, storage)
       /\ faults' = IF persistEffect(isHydrated[t], skipPersist[t], skipBroadcast[t]).save
                    THEN faults + Faults("ok", storage) ELSE faults
  /\ mutCount' = mutCount + 1
  /\ UNCHANGED <<open, isHydrated, syncSource, syncError, loads, inbox, refreshes, resetVars, refreshCall,
                 savedLocal, announced, notifyCauses, pulled>>
  /\ UNCHANGED <<hasRemote, remote, customSet, customStore, repoOps, lastOp, prevOp>>
  /\ UNCHANGED <<storeVars, chanVars, calcVars>>

\* the backend answers the request of a loadDataState call
LoadAnswer(t, i) ==
  /\ i \in 1..Len(loads[t])
  /\ loads[t][i].phase = "sent"
  /\ \E net \in NetChoices :
       /\ loads' = [loads EXCEPT ![t][i] = [@ EXCEPT !.phase = "answered", !.net = net,
                                                     !.blob = remote]]
       /\ faults' = faults + Faults(net, "ok")
  /\ UNCHANGED <<open, store, isHydrated, isSyncing, syncSource, syncError, skipPersist,
                 skipBroadcast, saves, inbox, mutCount, refreshes, resetVars, refreshCall,
                 handed, savedLocal, announced, notifyCauses, pulled>>
  /\ UNCHANGED <<repoVars, storeVars, chanVars, calcVars>>

\* the rest of loadDataState, once the backend answered
LoadSettled(t, i, storage) ==
  loadDataState(customSet, customStore, hasRemote, loads[t][i].blob, local,
                loads[t][i].net, storage, SeedState)

\* the mount effect without the setSyncError of its catch handler
MountLoadSettle_ErrorDropped(t, i) ==
  /\ i \in 1..Len(loads[t])
  /\ loads[t][i].phase = "answered"
  /\ loads[t][i].kind = "mount"
  /\ \E storage \in StorageChoices :
       LET settled == LoadSettled(t, i, storage)
           hydrateWith == IF settled.outcome = "resolved" THEN settled.state[1] ELSE SeedState
       IN  /\ Render(t, hydrateWith, "hydrate", TRUE, TRUE, skipBroadcast[t], FALSE, "ok")
           /\ local' = settled.local
           /\ syncSource' = [syncSource EXCEPT ![t] =
                               IF settled.outcome = "resolved" THEN settled.source ELSE "seed"]
           /\ syncError' = [syncError EXCEPT ![t] = FALSE]
           /\ faults' = faults + Faults("ok", storage)
  /\ isHydrated' = [isHydrated EXCEPT ![t] = TRUE]
  /\ loads' = [loads EXCEPT ![t] = RemoveAt(@, i)]
  /\ UNCHANGED <<open, inbox, mutCount, refreshes, resetVars, refreshCall, savedLocal, announced, notifyCauses, pulled>>
  /\ UNCHANGED <<hasRemote, remote, customSet, customStore, repoOps, lastOp, prevOp>>
  /\ UNCHANGED <<storeVars, chanVars, calcVars>>

\* the mount effect: loadDataState().then(...).catch(...).finally(...)
MountLoadSettle(t, i) ==
  /\ i \in 1..Len(loads[t])
  /\ loads[t][i].phase = "answered"
  /\ loads[t][i].kind = "mount"
  /\ \E storage \in StorageChoices :
       LET settled == LoadSettled(t, i, storage)
           hydrateWith == IF settled.outcome = "resolved" THEN settled.state[1] ELSE SeedState
       IN  /\ Render(t, hydrateWith, "hydrate", TRUE, TRUE, skipBroadcast[t], FALSE, "ok")
           /\ local' = settled.local
           /\ syncSource' = [syncSource EXCEPT ![t] =
                               IF settled.outcome = "resolved" THEN settled.source ELSE "seed"]
           /\ syncError' = [syncError EXCEPT ![t] = (settled.outcome = "rejected")]
           /\ faults' = faults + Faults("ok", storage)
  /\ isHydrated' = [isHydrated EXCEPT ![t] = TRUE]
  /\ loads' = [loads EXCEPT ![t] = RemoveAt(@, i)]
  /\ UNCHANGED <<open, inbox, mutCount, refreshes, resetVars, refreshCall, savedLocal, announced, notifyCauses, pulled>>
  /\ UNCHANGED <<hasRemote, remote, customSet, customStore, repoOps, lastOp, prevOp>>
  /\ UNCHANGED <<storeVars, chanVars, calcVars>>

\* createSyncChannel's listener and the onMessage handler of the DataProvider:
\* a state-updated message of tab o reaches tab t
Receive(t, o) ==
  /\ inbox[t][o] > 0
  /\ Len(loads[t]) < MaxLoads
  /\ inbox' = [inbox EXCEPT ![t][o] = @ - 1]
  /\ IF o = t
     THEN UNCHANGED <<skipPersist, skipBroadcast, isSyncing, loads>>
     ELSE /\ skipPersist' = [skipPersist EXCEPT ![t] = TRUE]
          /\ skipBroadcast' = [skipBroadcast EXCEPT ![t] = TRUE]
          /\ isSyncing' = [isSyncing EXCEPT ![t] = TRUE]
          /\ loads' = [loads EXCEPT ![t] = Append(@, [kind |-> "message", phase |-> "sent",
                                                        net |-> "ok", blob |-> <<>>])]
  /\ UNCHANGED <<open, store, isHydrated, syncSource, syncError, saves, mutCount, faults,
                 refreshes, resetVars, refreshCall, handed, savedLocal, announced, notifyCauses, pulled>>
  /\ UNCHANGED <<repoVars, storeVars, chanVars, calcVars>>

\* the handler's loadDataState().then(...).catch(...).finally(...)
MessageLoadSettle(t, i) ==
  /\ i \in 1..Len(loads[t])
  /\ loads[t][i].phase = "answered"
  /\ loads[t][i].kind = "message"
  /\ Len(saves[t]) < MaxSaves
  /\ \E storage \in StorageChoices, saveStorage \in StorageChoices :
       LET settled == LoadSettled(t, i, storage)
           saving == persistEffect(TRUE, skipPersist[t], skipBroadcast[t]).save
       IN  /\ storage = "ok" \/ saveStorage = "ok"
           /\ saving \/ saveStorage = "ok"
           /\ IF settled.outcome = "resolved"
              THEN /\ Render(t, settled.state[1], "hydrate", TRUE, skipPersist[t],
                             skipBroadcast[t], FALSE, saveStorage)
                   /\ local' = LocalAfterRender(settled.state[1], TRUE, skipPersist[t],
                                                skipBroadcast[t], settled.local, saveStorage)
                   /\ syncSource' = [syncSource EXCEPT ![t] =
                                       IF settled.source \in {"seed", "cache"}
                                       THEN settled.source ELSE "realtime"]
                   /\ syncError' = [syncError EXCEPT ![t] = FALSE]
                   /\ isHydrated' = [isHydrated EXCEPT ![t] = TRUE]
                   /\ pulled' = [pulled EXCEPT ![t] = @ \cup {p[1] : p \in savedLocal}]
                   /\ faults' = faults + Faults("ok", storage) + Faults("ok", saveStorage)
              ELSE /\ saveStorage = "ok"
                   /\ syncError' = [syncError EXCEPT ![t] = TRUE]
                   /\ isSyncing' = [isSyncing EXCEPT ![t] = FALSE]
                   /\ local' = settled.local
                   /\ faults' = faults + Faults("ok", storage)
                   /\ UNCHANGED <<store, skipPersist, skipBroadcast, saves, handed,
                                  syncSource, isHydrated, pulled>>
  /\ loads' = [loads EXCEPT ![t] = RemoveAt(@, i)]
  /\ UNCHANGED <<open, inbox, mutCount, refreshes, resetVars, refreshCall, savedLocal, announced, notifyCauses>>
  /\ UNCHANGED <<hasRemote, remote, customSet, customStore, repoOps, lastOp, prevOp>>
  /\ UNCHANGED <<storeVars, chanVars, calcVars>>

\* refresh(): setIsSyncing(true) and the call of loadDataState
refresh(t) ==
  /\ isHydrated[t]
  /\ refreshes < MaxRefreshes
  /\ Len(loads[t]) < MaxLoads
  /\ refreshes' = refreshes + 1
  /\ refreshCall' = [refreshCall EXCEPT ![t] = "pending"]
  /\ UNCHANGED resetVars
  /\ isSyncing' = [isSyncing EXCEPT ![t] = TRUE]
  /\ loads' = [loads EXCEPT ![t] = Append(@, [kind |-> "refresh", phase |-> "sent",
                                                net |-> "ok", blob |-> <<>>])]
  /\ UNCHANGED <<open, store, isHydrated, syncSource, syncError, skipPersist, skipBroadcast,
                 saves, inbox, mutCount, faults, handed, savedLocal, announced,
                 notifyCauses, pulled>>
  /\ UNCHANGED <<repoVars, storeVars, chanVars, calcVars>>

\* refresh() without the finally block after a failed load
RefreshSettle_StaysSyncing(t, i) ==
  /\ i \in 1..Len(loads[t])
  /\ loads[t][i].phase = "answered"
  /\ loads[t][i].kind = "refresh"
  /\ \E storage \in StorageChoices :
       LET settled == LoadSettled(t, i, storage)
       IN  /\ IF settled.outcome = "resolved"
              THEN /\ Render(t, settled.state[1], "hydrate", TRUE, TRUE, TRUE, FALSE, "ok")
                   /\ syncSource' = [syncSource EXCEPT ![t] = settled.source]
                   /\ syncError' = [syncError EXCEPT ![t] = FALSE]
                   /\ isHydrated' = [isHydrated EXCEPT ![t] = TRUE]
              ELSE /\ syncError' = [syncError EXCEPT ![t] = TRUE]
                   /\ isSyncing' = isSyncing
                   /\ UNCHANGED <<store, skipPersist, skipBroadcast, saves, handed,
                                  syncSource, isHydrated>>
           /\ local' = settled.local
           /\ faults' = faults + Faults("ok", storage)
           /\ refreshCall' = [refreshCall EXCEPT ![t] = settled.outcome]
  /\ loads' = [loads EXCEPT ![t] = RemoveAt(@, i)]
  /\ UNCHANGED <<open, inbox, mutCount, refreshes, resetVars, savedLocal, announced, notifyCauses, pulled>>
  /\ UNCHANGED <<hasRemote, remote, customSet, customStore, repoOps, lastOp, prevOp>>
  /\ UNCHANGED <<storeVars, chanVars, calcVars>>

\* refresh(): after the await
RefreshSettle(t, i) ==
  /\ i \in 1..Len(loads[t])
  /\ loads[t][i].phase = "answered"
  /\ loads[t][i].kind = "refresh"
  /\ \E storage \in StorageChoices :
       LET settled == LoadSettled(t, i, storage)
       IN  /\ IF settled.outcome = "resolved"
              THEN /\ Render(t, settled.state[1], "hydrate", TRUE, TRUE, TRUE, FALSE, "ok")
                   /\ syncSource' = [syncSource EXCEPT ![t] = settled.source]
                   /\ syncError' = [syncError EXCEPT ![t] = FALSE]
                   /\ isHydrated' = [isHydrated EXCEPT ![t] = TRUE]
              ELSE /\ syncError' = [syncError EXCEPT ![t] = TRUE]
                   /\ isSyncing' = [isSyncing EXCEPT ![t] = FALSE]
                   /\ UNCHANGED <<store, skipPersist, skipBroadcast, saves, handed,
                                  syncSource, isHydrated>>
           /\ local' = settled.local
           /\ faults' = faults + Faults("ok", storage)
           /\ refreshCall' = [refreshCall EXCEPT ![t] = settled.outcome]
  /\ loads' = [loads EXCEPT ![t] = RemoveAt(@, i)]
  /\ UNCHANGED <<open, inbox, mutCount, refreshes, resetVars, savedLocal, announced, notifyCauses, pulled>>
  /\ UNCHANGED <<hasRemote, remote, customSet, customStore, repoOps, lastOp, prevOp>>
  /\ UNCHANGED <<storeVars, chanVars, calcVars>>

\* reset(): the HYDRATE with a fresh seed, the state setters, the render
\* with its persist effect, and clearDataState() up to the DELETE request:
\* localStorage.removeItem has run, the request is out
reset(t) ==
  /\ isHydrated[t]
  /\ resets < MaxResets
  /\ resetCall[t].phase \notin {"clearing", "saving"}
  /\ Render(t, SeedState, "hydrate", TRUE, TRUE, skipBroadcast[t], TRUE, "ok")
  /\ syncSource' = [syncSource EXCEPT ![t] = "seed"]
  /\ isHydrated' = [isHydrated EXCEPT ![t] = TRUE]
  /\ local' = clearDataState(customSet, customStore, hasRemote, remote, local, "fail").local
  /\ resets' = resets + 1
  /\ resetCall' = [resetCall EXCEPT ![t] = [phase |-> "clearing", muts |-> mutCount]]
  /\ UNCHANGED <<open, syncError, loads, inbox, mutCount, faults, refreshes, refreshCall,
                 savedLocal, announced, notifyCauses, pulled>>
  /\ UNCHANGED <<hasRemote, remote, customSet, customStore, repoOps, lastOp, prevOp>>
  /\ UNCHANGED <<storeVars, chanVars, calcVars>>

\* reset(): the backend answers the DELETE, clearDataState() settles (a
\* failed request is only logged) and saveDataState(seeded) is called: it
\* writes localStorage and sends the PUT, or throws when the write fails
ResetCleared(t) ==
  /\ resetCall[t].phase = "clearing"
  /\ \E net \in NetChoices, storage \in StorageChoices :
       /\ net = "ok" \/ storage = "ok"
       /\ remote' = clearDataState(customSet, customStore, hasRemote, remote, local, net).remote
       /\ faults' = faults + Faults(net, storage)
       /\ IF saveDataState(customSet, customStore, hasRemote, remote, local, "fail", storage,
                           SeedState).outcome = "resolved"
          THEN /\ local' = saveDataState(customSet, customStore, hasRemote, remote, local,
                                         "fail", storage, SeedState).local
               /\ resetCall' = [resetCall EXCEPT ![t] = [@ EXCEPT !.phase = "saving"]]
               /\ UNCHANGED <<syncError, isSyncing>>
          ELSE /\ syncError' = [syncError EXCEPT ![t] = TRUE]
               /\ isSyncing' = [isSyncing EXCEPT ![t] = FALSE]
               /\ resetCall' = [resetCall EXCEPT ![t] = [@ EXCEPT !.phase = "rejected"]]
               /\ UNCHANGED local
  /\ UNCHANGED <<open, store, isHydrated, syncSource, skipPersist, skipBroadcast, loads, saves,
                 inbox, mutCount, refreshes, resets, refreshCall, handed, savedLocal,
                 announced, notifyCauses, pulled>>
  /\ UNCHANGED <<hasRemote, customSet, customStore, repoOps, lastOp, prevOp>>
  /\ UNCHANGED <<storeVars, chanVars, calcVars>>

\* reset(): the backend answers the PUT of the seed, saveDataState settles
\* (a failed request is only logged) and reset() sets the sync state and
\* resolves
ResetSaved(t) ==
  /\ resetCall[t].phase = "saving"
  /\ \E net \in NetChoices :
       /\ remote' = saveDataState(customSet, customStore, hasRemote, remote, local, net, "ok",
                                  SeedState).remote
       /\ faults' = faults + Faults(net, "ok")
  /\ syncError' = [syncError EXCEPT ![t] = FALSE]
  /\ isSyncing' = [isSyncing EXCEPT ![t] = FALSE]
  /\ resetCall' = [resetCall EXCEPT ![t] = [@ EXCEPT !.phase = "resolved"]]
  /\ UNCHANGED <<open, store, isHydrated, syncSource, skipPersist, skipBroadcast, loads, saves,
                 inbox, mutCount, refreshes, resets, refreshCall, handed, savedLocal,
                 announced, notifyCauses, pulled>>
  /\ UNCHANGED <<hasRemote, local, customSet, customStore, repoOps, lastOp, prevOp>>
  /\ UNCHANGED <<storeVars, chanVars, calcVars>>

\* the backend answers the PUT of a saveDataState call
SaveAnswer(t, i) ==
  /\ i \in 1..Len(saves[t])
  /\ saves[t][i].phase = "sent"
  /\ \E net \in NetChoices :
       /\ remote' = saveDataState(customSet, customStore, hasRemote, remote, local, net, "ok",
                                  saves[t][i].val).remote
       /\ faults' = faults + Faults(net, "ok")
  /\ saves' = [saves EXCEPT ![t][i] = [@ EXCEPT !.phase = "answered"]]
  /\ UNCHANGED <<open, store, isHydrated, isSyncing, syncSource, syncError, skipPersist,
                 skipBroadcast, loads, inbox, mutCount, refreshes, resetVars, refreshCall,
                 handed, savedLocal, announced, notifyCauses, pulled>>
  /\ UNCHANGED <<hasRemote, local, customSet, customStore, repoOps, lastOp, prevOp>>
  /\ UNCHANGED <<storeVars, chanVars, calcVars>>

\* channel.postMessage: every other open tab gets the message
notify(t) == [r \in AllTabs |-> IF r \in open /\ r # t
                                THEN [inbox[r] EXCEPT ![t] = @ + 1] ELSE inbox[r]]

\* the persist effect's saveDataState(state).then(...).catch(...).finally(...)
SaveSettle(t, i) ==
  /\ i \in 1..Len(saves[t])
  /\ saves[t][i].phase = "answered"
  /\ LET call == saves[t][i]
         sends == ~call.cancelled /\ call.outcome = "resolved" /\ ~skipBroadcast[t]
     IN  /\ sends => \A r \in open \ {t} : inbox[r][t] < MaxInbox
         /\ inbox' = IF sends THEN notify(t) ELSE inbox
         /\ skipBroadcast' = IF ~call.cancelled /\ call.outcome = "resolved"
                             THEN [skipBroadcast EXCEPT ![t] = FALSE] ELSE skipBroadcast
         /\ syncError' = IF call.cancelled THEN syncError
                         ELSE [syncError EXCEPT ![t] = (call.outcome = "rejected")]
         /\ isSyncing' = IF call.cancelled THEN isSyncing
                         ELSE [isSyncing EXCEPT ![t] = FALSE]
         /\ savedLocal' = IF ~call.cancelled /\ call.outcome = "resolved" /\ call.cause = "user"
                          THEN savedLocal \cup {<<call.mut, t>>} ELSE savedLocal
         /\ announced' = IF sends THEN announced \cup {call.mut} ELSE announced
         /\ notifyCauses' = IF sends THEN notifyCauses \cup {call.cause} ELSE notifyCauses
  /\ saves' = [saves EXCEPT ![t] = RemoveAt(@, i)]
  /\ UNCHANGED <<open, store, isHydrated, syncSource, skipPersist, loads, mutCount, faults,
                 refreshes, resetVars, refreshCall, handed, pulled>>
  /\ UNCHANGED <<repoVars, storeVars, chanVars, calcVars>>

NoTabs == [t \in AllTabs |-> FALSE]

\* no reset() call has been made; muts is mutCount when reset() was called
NoReset == [phase |-> "idle", muts |-> 0]

\* the tabs in `tabs` have just mounted their DataProvider: the mount effect
\* called loadDataState, the channel effect created the channel
SyncStart(tabs) ==
  /\ open = tabs
  /\ store = [t \in AllTabs |-> SeedState]
  /\ isHydrated = NoTabs
  /\ isSyncing = [t \in AllTabs |-> t \in tabs]
  /\ syncSource = [t \in AllTabs |-> "seed"]
  /\ syncError = NoTabs
  /\ skipPersist = [t \in AllTabs |-> TRUE]
  /\ skipBroadcast = NoTabs
  /\ loads = [t \in AllTabs |-> IF t \in tabs
                                THEN << [kind |-> "mount", phase |-> "sent",
                                         net |-> "ok", blob |-> <<>>] >>
                                ELSE <<>>]
  /\ saves = [t \in AllTabs |-> <<>>]
  /\ inbox = [t \in AllTabs |-> [o \in AllTabs |-> 0]]
  /\ mutCount = 0
  /\ faults = 0
  /\ refreshes = 0
  /\ handed = {}
  /\ savedLocal = {}
  /\ announced = {}
  /\ notifyCauses = {}
  /\ pulled = [t \in AllTabs |-> {}]
  /\ resets = 0
  /\ resetCall = [t \in AllTabs |-> NoReset]
  /\ refreshCall = [t \in AllTabs |-> "none"]

SyncIdle == SyncStart({})

\* the backend and localStorage when the tabs open: nothing stored yet
RepoAtStart ==
  /\ hasRemote = TRUE
  /\ remote = <<>>
  /\ local = <<>>
  /\ customSet = FALSE
  /\ customStore = <<>>
  /\ repoOps = 0
  /\ lastOp = NoOperation
  /\ prevOp = NoOperation

SyncInit == StoreInit /\ RepoAtStart /\ SyncStart({1, 2}) /\ ChanIdle /\ CalcIdle

SyncNext ==
  \/ \E t \in open : Mutate(t)
  \/ \E t \in open : \E i \in 1..MaxLoads : LoadAnswer(t, i)
  \/ \E t \in open : \E i \in 1..MaxLoads : MountLoadSettle(t, i)
  \/ \E t \in open : \E o \in open : Receive(t, o)
  \/ \E t \in open : \E i \in 1..MaxLoads : MessageLoadSettle(t, i)
  \/ \E t \in open : refresh(t)
  \/ \E t \in open : \E i \in 1..MaxLoads : RefreshSettle(t, i)
  \/ \E t \in open : \E i \in 1..MaxSaves : SaveAnswer(t, i)
  \/ \E t \in open : \E i \in 1..MaxSaves : SaveSettle(t, i)

\* ------------------------------------------------------------------------
\* Specifications
\* ------------------------------------------------------------------------
Init == StoreInit /\ RepoIdle /\ SyncIdle /\ ChanIdle /\ CalcIdle

Spec == Init /\ [][StoreNext]_vars

RepoSpecInit == StoreInit /\ RepoInit /\ SyncIdle /\ ChanIdle /\ CalcIdle

RepoSpec == RepoSpecInit /\ [][RepoNext]_vars

SyncSpec == SyncInit /\ [][SyncNext]_vars

ChanSpecInit == StoreInit /\ RepoIdle /\ SyncIdle /\ ChanInit /\ CalcIdle

ChanSpec == ChanSpecInit /\ [][ChanNext]_vars

CalcSpecInit == StoreInit /\ RepoIdle /\ SyncIdle /\ ChanIdle /\ CalcInit

CalcSpec == CalcSpecInit /\ [][CalcNext]_vars

\* One tab that has mounted against a backend with no data: it seeded
\* localStorage and its persist effect has used up the initial skip.  The
\* user edits, refreshes and resets; no other tab is open.
ResetInit ==
  /\ StoreInit
  /\ ChanIdle
  /\ CalcIdle
  /\ hasRemote = TRUE
  /\ remote = <<>>
  /\ local = LocalStorageRepository_save(SeedState)
  /\ customSet = FALSE
  /\ customStore = <<>>
  /\ repoOps = 0
  /\ lastOp = NoOperation
  /\ prevOp = NoOperation
  /\ open = {1}
  /\ store = [t \in AllTabs |-> SeedState]
  /\ isHydrated = [t \in AllTabs |-> t \in {1}]
  /\ isSyncing = NoTabs
  /\ syncSource = [t \in AllTabs |-> "seed"]
  /\ syncError = NoTabs
  /\ skipPersist = [t \in AllTabs |-> t \notin {1}]
  /\ skipBroadcast = NoTabs
  /\ loads = [t \in AllTabs |-> <<>>]
  /\ saves = [t \in AllTabs |-> <<>>]
  /\ inbox = [t \in AllTabs |-> [o \in AllTabs |-> 0]]
  /\ mutCount = 0
  /\ faults = 0
  /\ refreshes = 0
  /\ handed = {}
  /\ savedLocal = {}
  /\ announced = {}
  /\ notifyCauses = {}
  /\ pulled = [t \in AllTabs |-> {}]
  /\ resets = 0
  /\ resetCall = [t \in AllTabs |-> NoReset]
  /\ refreshCall = [t \in AllTabs |-> "none"]

ResetNext ==
  \/ \E t \in open : Mutate(t)
  \/ \E t \in open : \E i \in 1..MaxLoads : LoadAnswer(t, i)
  \/ \E t \in open : refresh(t)
  \/ \E t \in open : \E i \in 1..MaxLoads : RefreshSettle(t, i)
  \/ \E t \in open : \E i \in 1..MaxSaves : SaveAnswer(t, i)
  \/ \E t \in open : \E i \in 1..MaxSaves : SaveSettle(t, i)
  \/ \E t \in open : reset(t)
  \/ \E t \in open : ResetCleared(t)
  \/ \E t \in open : ResetSaved(t)

ResetSpec == ResetInit /\ [][ResetNext]_vars

\* Three tabs that have mounted one after the other against a backend with
\* no data: the first seeded localStorage, the others read it, each persist
\* effect has used up the initial skip.  The backend and localStorage never
\* fail, nobody calls refresh(); requests are answered and continuations run
\* in the order of the calls.
FairSyncInit ==
  /\ StoreInit
  /\ ChanIdle
  /\ CalcIdle
  /\ hasRemote = TRUE
  /\ remote = <<>>
  /\ local = LocalStorageRepository_save(SeedState)
  /\ customSet = FALSE
  /\ customStore = <<>>
  /\ repoOps = 0
  /\ lastOp = NoOperation
  /\ prevOp = NoOperation
  /\ open = AllTabs
  /\ store = [t \in AllTabs |-> SeedState]
  /\ isHydrated = [t \in AllTabs |-> TRUE]
  /\ isSyncing = NoTabs
  /\ syncSource = [t \in AllTabs |-> IF t = 1 THEN "seed" ELSE "local"]
  /\ syncError = NoTabs
  /\ skipPersist = NoTabs
  /\ skipBroadcast = NoTabs
  /\ loads = [t \in AllTabs |-> <<>>]
  /\ saves = [t \in AllTabs |-> <<>>]
  /\ inbox = [t \in AllTabs |-> [o \in AllTabs |-> 0]]
  /\ mutCount = 0
  /\ faults = MaxFaults
  /\ refreshes = MaxRefreshes
  /\ handed = {}
  /\ savedLocal = {}
  /\ announced = {}
  /\ notifyCauses = {}
  /\ pulled = [t \in AllTabs |-> {}]
  /\ resets = 0
  /\ resetCall = [t \in AllTabs |-> NoReset]
  /\ refreshCall = [t \in AllTabs |-> "none"]

FairSyncNext ==
  \/ \E t \in open : Mutate(t)
  \/ \E t \in open : LoadAnswer(t, 1)
  \/ \E t \in open : \E o \in open : Receive(t, o)
  \/ \E t \in open : MessageLoadSettle(t, 1)
  \/ \E t \in open : SaveAnswer(t, 1)
  \/ \E t \in open : SaveSettle(t, 1)

\* a step the program would take is held back by a bound of the model
HeldBack ==
  \/ \E t \in open : \E o \in open : inbox[t][o] > 0 /\ Len(loads[t]) >= MaxLoads
  \/ \E t \in open : /\ Len(loads[t]) > 0
                       /\ loads[t][1].phase = "answered"
                       /\ loads[t][1].kind = "message"
                       /\ Len(saves[t]) >= MaxSaves
  \/ \E t \in open : /\ Len(saves[t]) > 0
                       /\ saves[t][1].phase = "answered"
                       /\ \E r \in open \ {t} : inbox[r][t] >= MaxInbox

\* every request is answered, every continuation runs, every message is
\* delivered; the user is free to stop.  Only the behaviours in which no
\* bound holds a step back for ever are kept, so that a step enabled in the
\* program is enabled here.
SyncFairness ==
  /\ \A t \in AllTabs : WF_vars(LoadAnswer(t, 1))
  /\ \A t \in AllTabs : WF_vars(MessageLoadSettle(t, 1))
  /\ \A t \in AllTabs : WF_vars(SaveAnswer(t, 1))
  /\ \A t \in AllTabs : WF_vars(SaveSettle(t, 1))
  /\ \A t \in AllTabs : \A o \in AllTabs : WF_vars(Receive(t, o))
  /\ <>[]~HeldBack

FairSyncSpec == FairSyncInit /\ [][FairSyncNext]_vars /\ SyncFairness

\* ------------------------------------------------------------------------
\* Claims about the reducer
\* ------------------------------------------------------------------------
RequestsOf(s, type) ==
  IF type = "UPSERT_ISSUE_REQUEST" THEN s.issueRequests ELSE s.purchaseRequests

\* C1: once a request with a given id exists, every later upsert with that
\* id leaves its createdAt unchanged and sets its updatedAt to a later value.
C1_UpsertKeepsCreatedAtAndAdvancesUpdatedAt ==
  (/\ last.type \in {"UPSERT_ISSUE_REQUEST", "UPSERT_PURCHASE_REQUEST"}
   /\ last.id \in Ids(RequestsOf(last.prev, last.type)))
  => /\ last.id \in Ids(RequestsOf(state, last.type))
     /\ FindById(RequestsOf(state, last.type), last.id).createdAt
          = FindById(RequestsOf(last.prev, last.type), last.id).createdAt
     /\ FindById(RequestsOf(state, last.type), last.id).updatedAt
          > FindById(RequestsOf(last.prev, last.type), last.id).updatedAt

\* C2: UPDATE_ITEM, DELETE_ITEM and REMOVE_USER with an id that matches no
\* item/user return a state equal to the input state in all six lists.
C2_NoOpOnMissingId ==
  (\/ last.type \in {"UPDATE_ITEM", "DELETE_ITEM"} /\ last.id \notin Ids(last.prev.items)
   \/ last.type = "REMOVE_USER" /\ last.id \notin Ids(last.prev.users))
  => state = last.prev

\* C3 as stated: every action other than DELETE_AUDIT_LOG and
\* CLEAR_AUDIT_LOGS leaves the previous auditLogs as a suffix of the new one.
C3_AuditAppendOnlyForAllOtherActions ==
  last.type \notin {"INIT", "DELETE_AUDIT_LOG", "CLEAR_AUDIT_LOGS"}
  => IsSuffix(last.prev.auditLogs, state.auditLogs)

\* C3 amended: every action other than DELETE_AUDIT_LOG, CLEAR_AUDIT_LOGS and
\* HYDRATE leaves the previous auditLogs as an unchanged suffix of the new
\* auditLogs, which is at least as long.
C3_AuditAppendOnly ==
  last.type \notin {"INIT", "HYDRATE", "DELETE_AUDIT_LOG", "CLEAR_AUDIT_LOGS"}
  => IsSuffix(last.prev.auditLogs, state.auditLogs)

\* an item was deleted and its audit entry stands in front of the old log
C3_Witness ==
  /\ last.type = "DELETE_ITEM"
  /\ Len(last.prev.auditLogs) >= 2
  /\ Len(state.auditLogs) = Len(last.prev.auditLogs) + 1

\* C13: ADJUST_INVENTORY of an existing item X from stock S to stock N
\* leaves X with stock N, prepends one audit entry of category inventory
\* with meta.stock = N and meta.delta = N - S whose label is inbound for
\* N > S, outbound for N < S and adjusted for N = S, and changes no other item.
C13_AdjustInventoryDelta ==
  (last.type = "ADJUST_INVENTORY" /\ last.id \in Ids(last.prev.items)) =>
    LET before == FindById(last.prev.items, last.id)
        after == FindById(state.items, last.id)
        audit == state.auditLogs[1]
    IN  /\ after.stock \in StockInputs
        /\ after = [before EXCEPT !.stock = after.stock]
        /\ Len(state.items) = Len(last.prev.items)
        /\ \A i \in 1..Len(state.items) :
             last.prev.items[i].id # last.id => state.items[i] = last.prev.items[i]
        /\ state.auditLogs = <<audit>> \o last.prev.auditLogs
        /\ audit.category = "inventory"
        /\ audit.meta.stock = after.stock
        /\ audit.meta.delta = after.stock - before.stock
        /\ audit.action = IF after.stock > before.stock THEN "stock inbound"
                          ELSE IF after.stock < before.stock THEN "stock outbound"
                          ELSE "stock adjusted"

\* an item emptied before is restocked: the entry is an inbound one of +12
C13_Witness ==
  /\ last.type = "ADJUST_INVENTORY"
  /\ last.id \in Ids(last.prev.items)
  /\ FindById(last.prev.items, last.id).stock = 0
  /\ FindById(state.items, last.id).stock = 12
  /\ state.auditLogs[1].action = "stock inbound"
  /\ state.auditLogs[1].meta.delta = 12

\* C14: DELETE_AUDIT_LOG of a present id removes that entry alone and puts
\* one new entry recording the removal in front; CLEAR_AUDIT_LOGS leaves
\* one entry recording the clear; either way the log is not empty and
\* nothing else in the state changes.
C14_AuditDeletionIsRecorded ==
  /\ (last.type = "DELETE_AUDIT_LOG" /\ last.id \in Ids(last.prev.auditLogs)) =>
       LET old == last.prev.auditLogs
           audit == state.auditLogs[1]
       IN  /\ Len(state.auditLogs) = Len(old)
           /\ \E i \in 1..Len(old) :
                /\ old[i].id = last.id
                /\ Tail(state.auditLogs) = SubSeq(old, 1, i - 1) \o SubSeq(old, i + 1, Len(old))
           /\ audit.id \notin Ids(old)
           /\ audit.action = "log deleted"
           /\ audit.category = "system"
           /\ audit.meta.removedLogId = last.id
           /\ [state EXCEPT !.auditLogs = old] = last.prev
  /\ last.type = "CLEAR_AUDIT_LOGS" =>
       /\ Len(state.auditLogs) = 1
       /\ state.auditLogs[1].id \notin Ids(last.prev.auditLogs)
       /\ state.auditLogs[1].action = "logs cleared"
       /\ state.auditLogs[1].category = "system"
       /\ [state EXCEPT !.auditLogs = last.prev.auditLogs] = last.prev

\* the older of two entries is deleted: the log keeps the newer one behind
\* the entry that records the removal
C14_Witness ==
  /\ last.type = "DELETE_AUDIT_LOG"
  /\ Len(last.prev.auditLogs) = 2
  /\ last.prev.auditLogs[2].id = last.id
  /\ Len(state.auditLogs) = 2
  /\ state.auditLogs[2] = last.prev.auditLogs[1]
  /\ state.auditLogs[1].meta.removedLogId = last.id

\* C15: an upsert whose id matches an existing request replaces it at its
\* position and keeps the length of the list; an upsert whose id matches
\* none adds exactly one request in front, with a newly generated id and
\* createdAt equal to updatedAt, and leaves every other request unchanged.
C15_UpsertReplacesInPlaceOrAddsOne ==
  last.type \in {"UPSERT_ISSUE_REQUEST", "UPSERT_PURCHASE_REQUEST"} =>
    LET old == RequestsOf(last.prev, last.type)
        new == RequestsOf(state, last.type)
    IN  IF last.id \in Ids(old)
        THEN /\ Len(new) = Len(old)
             /\ \A i \in 1..Len(old) :
                  IF old[i].id = last.id THEN new[i].id = last.id ELSE new[i] = old[i]
        ELSE /\ Len(new) = Len(old) + 1
             /\ Tail(new) = old
             /\ new[1].id \notin Ids(old)
             /\ new[1].createdAt = new[1].updatedAt

\* the names an audit entry of a request must carry for the given lines
NamesOf(lineItems, items) ==
  [i \in 1..Len(lineItems) |->
     IF lineItems[i].itemId \in Ids(items)
     THEN FindById(items, lineItems[i].itemId).name
     ELSE "unknown item"]

\* the audit entry in front of the log describes a request with these lines
DescribesLines(audit, lineItems, items) ==
  /\ audit.meta.items = NamesOf(lineItems, items)
  /\ audit.target = IF Len(lineItems) = 0
                    THEN <<"no request items", 0>>
                    ELSE <<NamesOf(lineItems, items)[1], Len(lineItems) - 1>>

\* a request has a line whose item is not in the item list
Dangling(request, items) ==
  \E i \in 1..Len(request.lineItems) : request.lineItems[i].itemId \notin Ids(items)

\* C23: DELETE_ITEM removes the item and leaves every issue and purchase
\* request as it was, also those whose lines reference the item; an upsert
\* or a delete of a request goes through whether or not its lines reference
\* items that exist, and its audit entry names a missing item by the
\* placeholder in the target and in meta.items.
C23_DeleteItemDoesNotCascade ==
  /\ (last.type = "DELETE_ITEM" /\ last.id \in Ids(last.prev.items)) =>
       /\ state.items = RemoveById(last.prev.items, last.id)
       /\ state.issueRequests = last.prev.issueRequests
       /\ state.purchaseRequests = last.prev.purchaseRequests
  /\ last.type \in {"UPSERT_ISSUE_REQUEST", "UPSERT_PURCHASE_REQUEST"} =>
       LET old == RequestsOf(last.prev, last.type)
           new == RequestsOf(state, last.type)
           stored == IF last.id \in Ids(old) THEN FindById(new, last.id) ELSE new[1]
       IN  /\ Len(new) = Len(old) + (IF last.id \in Ids(old) THEN 0 ELSE 1)
           /\ Len(state.auditLogs) = Len(last.prev.auditLogs) + 1
           /\ DescribesLines(state.auditLogs[1], stored.lineItems, last.prev.items)
  /\ (\/ /\ last.type = "DELETE_ISSUE_REQUEST"
         /\ last.id \in Ids(last.prev.issueRequests)
      \/ /\ last.type = "DELETE_PURCHASE_REQUEST"
         /\ last.id \in Ids(last.prev.purchaseRequests)) =>
       LET old == IF last.type = "DELETE_ISSUE_REQUEST"
                  THEN last.prev.issueRequests ELSE last.prev.purchaseRequests
           new == IF last.type = "DELETE_ISSUE_REQUEST"
                  THEN state.issueRequests ELSE state.purchaseRequests
       IN  /\ new = RemoveById(old, last.id)
           /\ Len(new) = Len(old) - 1
           /\ Len(state.auditLogs) = Len(last.prev.auditLogs) + 1
           /\ DescribesLines(state.auditLogs[1], FindById(old, last.id).lineItems,
                             last.prev.items)

\* a request that references a deleted item is deleted: its audit entry
\* names the missing item by the placeholder
C23_Witness ==
  /\ last.type = "DELETE_ISSUE_REQUEST"
  /\ last.id \in Ids(last.prev.issueRequests)
  /\ Dangling(FindById(last.prev.issueRequests, last.id), last.prev.items)
  /\ state.auditLogs[1].target[1] = "unknown item"
  /\ state.auditLogs[2].action = "item deleted"

\* C26: in every state of the Store every item's stock and threshold are
\* non-negative integers.
C26_StockAndThresholdNonNegative ==
  \A i \in 1..Len(state.items) :
    /\ state.items[i].stock \in Nat
    /\ state.items[i].threshold \in Nat

\* C27: reducing HYDRATE(s) yields exactly s in all six lists, so no audit
\* and no activity entry is added, and reducing HYDRATE(s) once more
\* changes nothing.
C27_HydrateIsVerbatimAndIdempotent ==
  [][ \A payload \in HydratePayloads :
        HydrateWith(payload) =>
          /\ state' = payload
          /\ state'.auditLogs = payload.auditLogs
          /\ state'.activities = payload.activities
          /\ ReduceHydrate(state', payload) = state'
    ]_vars

\* a store that holds audit entries of its own is hydrated with a state
\* that has fewer: nothing of the old log is left
C27_Witness ==
  /\ last.type = "HYDRATE"
  /\ Len(last.prev.auditLogs) > Len(state.auditLogs)
  /\ state # last.prev
  /\ state.items = <<>>

\* C25: an upsert of an existing request stores the status its payload
\* carries, whatever the status of the request was: in every state of the
\* Store, for every request in it and every status of its type, reducing
\* the upsert of that request with that status gives a state in which the
\* request has that status and the audit entry in front carries it in
\* meta.status; the upsert just dispatched left meta.status equal to the
\* stored status.
C25_UpsertStoresAnyStatus ==
  /\ \A i \in 1..Len(state.issueRequests) : \A status \in IssueStatusInputs :
       LET request == [state.issueRequests[i] EXCEPT !.status = status]
           result == ReduceUpsertIssueRequest(state, request, 1, "status changed", now, now,
                                              nextId + 1, nextId + 2, nextId + 3)
       IN  /\ FindById(result.issueRequests, request.id).status = status
           /\ result.auditLogs[1].meta.status = status
           /\ Len(result.issueRequests) = Len(state.issueRequests)
  /\ \A i \in 1..Len(state.purchaseRequests) : \A status \in PurchaseStatusInputs :
       LET request == [state.purchaseRequests[i] EXCEPT !.status = status]
           result == ReduceUpsertPurchaseRequest(state, request, 1, "status changed", now, now,
                                                 nextId + 1, nextId + 2, nextId + 3)
       IN  /\ FindById(result.purchaseRequests, request.id).status = status
           /\ result.auditLogs[1].meta.status = status
           /\ Len(result.purchaseRequests) = Len(state.purchaseRequests)
  /\ (/\ last.type \in {"UPSERT_ISSUE_REQUEST", "UPSERT_PURCHASE_REQUEST"}
      /\ last.id \in Ids(RequestsOf(last.prev, last.type)))
     => /\ state.auditLogs[1].meta.status
             = FindById(RequestsOf(state, last.type), last.id).status
        /\ "status" \in state.auditLogs[1].meta.keys

\* a fulfilled issue request was set back to draft by one upsert
C25_Witness ==
  /\ last.type = "UPSERT_ISSUE_REQUEST"
  /\ last.id \in Ids(last.prev.issueRequests)
  /\ FindById(last.prev.issueRequests, last.id).status = "fulfilled"
  /\ FindById(state.issueRequests, last.id).status = "draft"
  /\ state.auditLogs[1].meta.status = "draft"

\* no two entries of the list have the same id
DistinctIds(list) == \A i, j \in 1..Len(list) : list[i].id = list[j].id => i = j

\* C30: the ids of the users, of the issue requests and of the purchase
\* requests stay pairwise distinct under every sequence of upserts and
\* deletes (generated ids being fresh), and a delete of a present id
\* removes exactly one entry.
C30_IdsStayDistinct ==
  /\ DistinctIds(state.users)
  /\ DistinctIds(state.issueRequests)
  /\ DistinctIds(state.purchaseRequests)
  /\ (last.type = "REMOVE_USER" /\ last.id \in Ids(last.prev.users)) =>
       /\ Len(state.users) = Len(last.prev.users) - 1
       /\ Ids(state.users) = Ids(last.prev.users) \ {last.id}
  /\ (last.type = "DELETE_ISSUE_REQUEST" /\ last.id \in Ids(last.prev.issueRequests)) =>
       /\ Len(state.issueRequests) = Len(last.prev.issueRequests) - 1
       /\ Ids(state.issueRequests) = Ids(last.prev.issueRequests) \ {last.id}
  /\ (last.type = "DELETE_PURCHASE_REQUEST" /\ last.id \in Ids(last.prev.purchaseRequests)) =>
       /\ Len(state.purchaseRequests) = Len(last.prev.purchaseRequests) - 1
       /\ Ids(state.purchaseRequests) = Ids(last.prev.purchaseRequests) \ {last.id}

\* a user was edited and then removed: one user is left
C30_Witness ==
  /\ last.type = "REMOVE_USER"
  /\ last.id \in Ids(last.prev.users)
  /\ last.prev.users # createInitialDataState(0).users
  /\ Len(last.prev.users) = 2
  /\ Len(state.users) = 1

\* ------------------------------------------------------------------------
\* Claims about the repository
\* ------------------------------------------------------------------------
DefaultRemoteMode(op) == ~op.custom /\ hasRemote

\* C4: in the default mode, after a saveDataState(s) whose network write
\* failed, a loadDataState that cannot reach the remote store
\* resolves with source "cache" and the state s.
C4_FailedSaveThenFailedLoadYieldsCache ==
  (/\ lastOp.op = "load" /\ DefaultRemoteMode(lastOp) /\ lastOp.net = "fail"
   /\ prevOp.op = "save" /\ DefaultRemoteMode(prevOp) /\ prevOp.net = "fail"
   /\ prevOp.storage = "ok")
  => /\ lastOp.outcome = "resolved"
     /\ lastOp.source = "cache"
     /\ lastOp.state = prevOp.arg

\* C5: in the default mode, a saveDataState whose network write fails
\* rejects: the failure reaches the caller.
C5_FailedNetworkWriteRejects ==
  (/\ lastOp.op = "save" /\ DefaultRemoteMode(lastOp) /\ lastOp.net = "fail"
   /\ lastOp.storage = "ok")
  => lastOp.outcome = "rejected"

\* C6: in the default mode, a loadDataState that cannot reach the remote
\* store, with no state cached earlier in the session, rejects instead of
\* resolving with a state.
C6_FailedLoadWithoutCacheRejects ==
  (/\ lastOp.op = "load" /\ DefaultRemoteMode(lastOp) /\ lastOp.net = "fail"
   /\ prevOp.op = "none")
  => lastOp.outcome = "rejected"

\* C16: while a custom repository is set, loadDataState resolves with
\* source "custom" and the state the custom repository holds (the one last
\* saved), or a freshly seeded state when it holds none.
C16_CustomRepositoryAlone ==
  (lastOp.op = "load" /\ lastOp.custom) =>
    /\ lastOp.outcome = "resolved"
    /\ lastOp.source = "custom"
    /\ lastOp.state = IF Len(customStore) > 0 THEN customStore
                      ELSE <<createInitialDataState(now)>>
    /\ (prevOp.op = "save" /\ prevOp.custom) => lastOp.state = prevOp.arg

\* C17: in the default mode, when the backend answers that nothing is
\* stored yet, loadDataState seeds a default state, saves the seed to the
\* backend and resolves with the seed and source "seed".
C17_EmptyRemoteIsSeeded ==
  [][ (/\ repoOps' = repoOps + 1
       /\ lastOp'.op = "load" /\ DefaultRemoteMode(lastOp')
       /\ lastOp'.net = "ok" /\ lastOp'.storage = "ok"
       /\ remote = <<>>)
      => /\ lastOp'.outcome = "resolved"
         /\ lastOp'.source = "seed"
         /\ lastOp'.state = <<createInitialDataState(now)>>
         /\ remote' = <<createInitialDataState(now)>>
    ]_vars

\* C18: in the default mode, when the backend answers with a stored state,
\* loadDataState resolves with exactly that state and source "remote", and
\* a loadDataState that follows immediately and cannot reach the backend
\* resolves with the same state.
C18_RemoteLoadIsReturnedAndCached ==
  /\ (/\ lastOp.op = "load" /\ DefaultRemoteMode(lastOp)
      /\ lastOp.net = "ok" /\ Len(remote) > 0)
     => /\ lastOp.outcome = "resolved"
        /\ lastOp.source = "remote"
        /\ lastOp.state = remote
  /\ (/\ lastOp.op = "load" /\ DefaultRemoteMode(lastOp) /\ lastOp.net = "fail"
      /\ prevOp.op = "load" /\ DefaultRemoteMode(prevOp)
      /\ prevOp.net = "ok" /\ Len(remote) > 0)
     => /\ lastOp.outcome = "resolved"
        /\ lastOp.state = remote

\* C19: once clearDataState has resolved, neither the backend nor
\* localStorage holds a state (with a custom repository, its store is
\* empty), and a loadDataState that follows does not return a state that was
\* persisted before the clear: it returns a fresh seed.
C19_ClearLeavesNothingBehind ==
  /\ (lastOp.op = "clear" /\ lastOp.outcome = "resolved")
     => IF lastOp.custom
        THEN customStore = <<>>
        ELSE local = <<>> /\ remote = <<>>
  /\ (/\ lastOp.op = "load" /\ lastOp.outcome = "resolved"
      /\ prevOp.op = "clear" /\ prevOp.outcome = "resolved"
      /\ lastOp.custom = prevOp.custom)
     => /\ lastOp.state = <<createInitialDataState(now)>>
        /\ ~lastOp.custom => lastOp.source = "seed"

\* no source other than localStorage supplies a state to the last operation
NothingElseToLoad ==
  ~lastOp.custom /\ (~hasRemote \/ lastOp.net = "fail" \/ remote = <<>>)

Quiescent ==
  \A t \in open : /\ loads[t] = <<>>
                  /\ saves[t] = <<>>
                  /\ \A o \in open : inbox[t][o] = 0

\* C7: a HYDRATE whose payload came from the repository never makes the
\* persist effect call saveDataState with the hydrated state and never makes
\* the tab send a state-updated message.
C7_HydrateNeverPersistsNorNotifies ==
  /\ \A t \in open : \A i \in 1..Len(saves[t]) : saves[t][i].cause # "hydrate"
  /\ "hydrate" \notin notifyCauses

\* C8: after the initial hydration every user action that changes the state
\* is handed to saveDataState, in its own state or in a later one that still
\* holds the change: once nothing is in flight, no mutation is left over.
C8_EveryMutationIsHandedToSave ==
  Quiescent => \A m \in 1..mutCount : m \in handed

\* C9: when the save of a tab's own mutation succeeds and no load or save
\* fails and no mutation follows, the tab sends a state-updated message and
\* every other open tab reloads and hydrates.
C9_SavedMutationReachesEveryTab ==
  (Quiescent /\ faults = 0) =>
    \A p \in savedLocal :
      p[1] = mutCount =>
        /\ p[1] \in announced
        /\ \A r \in open \ {p[2]} : p[1] \in pulled[r]

\* C10: with finitely many mutations the chain notify, reload, hydrate,
\* persist, notify ends: from some point on no save is in flight and no
\* state-updated message is pending.
C10_SyncChainTerminates ==
  <>[](\A t \in open : saves[t] = <<>> /\ \A o \in open : inbox[t][o] = 0)

\* a saveDataState call of tab t whose request the backend has not answered
InFlight(t) == { i \in 1..Len(saves[t]) : saves[t][i].phase = "sent" }

\* C11: overlapping saves are neither queued, cancelled nor coalesced: a
\* request that is out stays out until it is answered, whatever the tab
\* renders meanwhile; the backend then holds the state of the request it
\* answered last, and nothing but an answered request changes what it holds.
C11_LastCompletedSaveWins ==
  [][ /\ \A t \in open : \A i \in InFlight(t) :
           \E j \in 1..Len(saves'[t]) :
             /\ saves'[t][j].val = saves[t][i].val
             /\ saves'[t][j].mut = saves[t][i].mut
             /\ \/ saves'[t][j].phase = "sent"
                \/ /\ saves'[t][j].phase = "answered"
                   /\ faults' = faults => remote' = <<saves[t][i].val>>
      /\ (\A t \in open : \A i \in InFlight(t) : i \in InFlight(t)')
           => remote' = remote
      /\ \A t \in open : Len(saves'[t]) > Len(saves[t]) =>
           /\ saves'[t][Len(saves'[t])].val = store'[t]
           /\ faults' = faults => /\ saves'[t][Len(saves'[t])].phase = "sent"
                                  /\ local' = LocalStorageRepository_save(store'[t])
    ]_vars

\* two saves of one tab overlapped and the older state was answered last:
\* the backend holds the older state
C11_Witness ==
  \E t \in open :
    /\ Len(saves[t]) = 2
    /\ saves[t][1].phase = "answered" /\ saves[t][2].phase = "answered"
    /\ saves[t][1].cause = "user" /\ saves[t][2].cause = "user"
    /\ saves[t][1].val # saves[t][2].val
    /\ saves[t][2].val = store[t]
    /\ faults = 0
    /\ remote = <<saves[t][1].val>>

\* C20: when the mount load of a tab settles, the tab is hydrated and no
\* longer syncing; when it settles by failing, the tab holds a fresh seed,
\* its sync source is "seed" and its sync error is set.
C20_FailedMountLoadSeeds ==
  [][ \A t \in open : \A i \in 1..Len(loads[t]) :
        (/\ loads[t][i].kind = "mount"
         /\ loads[t][i].phase = "answered"
         /\ loads'[t] = RemoveAt(loads[t], i))
        => /\ isHydrated'[t]
           /\ ~isSyncing'[t]
           /\ LoadSettled(t, i, IF faults' > faults THEN "full" ELSE "ok").outcome
                = "rejected"
              => /\ store'[t] = SeedState
                 /\ syncSource'[t] = "seed"
                 /\ syncError'[t]
    ]_vars

\* the mount load of a tab failed: nothing could be loaded and the seed
\* could not be written to localStorage
C20_Witness ==
  \E t \in open :
    /\ isHydrated[t] /\ ~isSyncing[t]
    /\ syncError[t] /\ syncSource[t] = "seed" /\ store[t] = SeedState
    /\ loads[t] = <<>> /\ pulled[t] = {}
    /\ mutCount = 0 /\ refreshes = 0 /\ faults = 1
    /\ local = <<>>

C22_ResetLeavesSeedEverywhere ==
  \A t \in open :
    (/\ resetCall[t].phase = "resolved"
     /\ mutCount = resetCall[t].muts
     /\ refreshes = 0
     /\ faults = 0)
    => /\ store[t] = SeedState
       /\ syncSource[t] = "seed"
       /\ local = LocalStorageRepository_save(SeedState)
       /\ remote = <<SeedState>>

\* a repository operation the DataProvider of tab t started has not settled:
\* a load (mount, refresh, message), a save whose request is out, or the
\* clear or save of a reset()
OperationInFlight(t) ==
  \/ loads[t] # <<>>
  \/ InFlight(t) # {}
  \/ resetCall[t].phase \in {"clearing", "saving"}

\* C29: isSyncing is true in every state in which a repository operation
\* started by the DataProvider is still in flight, at least as long as no
\* request and no storage write has failed.
C29_SyncingWhileInFlight ==
  faults = 0 => \A t \in open : OperationInFlight(t) => isSyncing[t]

\* ------------------------------------------------------------------------
\* Claims about the sync channel
\* ------------------------------------------------------------------------

\* the event carries a message the listener can read
CarriesMessage(event) ==
  /\ event.key = "sync"
  /\ event.data # <<>>
  /\ event.data[1].kind = "message"

\* C12: in both channel strategies a message whose originId is the
\* receiving context's own instance id never reaches onMessage, and a
\* message with another originId does.
C12_SelfMessageIgnored ==
  \A dsp \in chanLast :
    CarriesMessage(dsp.event) =>
      (dsp.invoked <=> dsp.event.data[1].originId # chanOwner[dsp.to])

\* the storage listener was handed a message of its own context and
\* ignored it, after it had passed on a message of another context
C12_Witness ==
  /\ chanMode = "storage"
  /\ \E dsp \in chanLast :
       /\ CarriesMessage(dsp.event)
       /\ dsp.event.data[1].originId = chanOwner[dsp.to]
       /\ ~dsp.invoked
       /\ chanCalls[dsp.to] # {}

\* ------------------------------------------------------------------------
\* Claims about calculateTotalQuantity
\* ------------------------------------------------------------------------
\* what one line adds to the total, as the description of the function has it
Contribution(line, items, unit) ==
  IF line.itemId \notin Ids(items) THEN 0
  ELSE IF line.unit = unit THEN line.quantity
  ELSE IF FindById(items, line.itemId).unit = "box" /\ unit = "each"
       THEN line.quantity * 10
  ELSE line.quantity

RECURSIVE SumOfContributions(_, _, _)
SumOfContributions(lineItems, items, unit) ==
  IF Len(lineItems) = 0 THEN 0
  ELSE Contribution(Head(lineItems), items, unit)
         + SumOfContributions(Tail(lineItems), items, unit)

\* C28: calculateTotalQuantity(lineItems, items, unit) is the sum, over the
\* lines whose item exists, of the quantity when the line's unit is the unit
\* asked for, of ten times the quantity when the units differ, the item is
\* counted in boxes and single pieces are asked for, and of the quantity
\* otherwise; a line whose item does not exist adds nothing.
C28_TotalQuantityIsSumOfConvertedLines ==
  calcTotal # <<>> =>
    calcTotal[1] = SumOfContributions(calcLineItems, calcItems, calcUnit)

\* two boxes asked for in single pieces count as twenty, beside a line
\* whose item is gone and adds nothing
C28_Witness ==
  /\ calcTotal = <<20>>
  /\ calcUnit = "each"
  /\ Len(calcLineItems) = 2
  /\ calcLineItems[1] = [itemId |-> 3, quantity |-> 2, unit |-> "box"]
  /\ calcLineItems[2].itemId \notin Ids(calcItems)
  /\ calcItems = createInitialDataState(0).items

====
